---- MODULE Spec2Model ----
(***************************************************************************)
(* Event-to-channel routing and configuration subsystem of the bot:        *)
(* the SQLite config store (utils/database.py), the routing resolver and   *)
(* send path (cogs/logging/base.py), the dispatch modules                  *)
(* (cogs/logging/*_logs.py) and the administrative commands                *)
(* (cogs/logging/admin_commands.py).                                       *)
(*                                                                         *)
(* A table is the bag of its rows (a row may be stored more than once      *)
(* unless a uniqueness constraint forbids it), a row is a record of its    *)
(* columns.  An Optional value (a row or None) is a set with at most one   *)
(* element.  The database is the record of the three tables.  A            *)
(* coroutine is one action: the store calls of one handler run in program  *)
(* order with nothing interleaved.                                         *)
(***************************************************************************)
EXTENDS Integers, Sequences, FiniteSets, Bags, TLC

\* ---------------------------------------------------------------- bounds
NumEvents == 2
NumChannels == 2
MaxEventList == 2
NumUnits == 2
NumStatements == 2
NumMessages == 3
TimeStep == 150
MaxTime == 450

\* ------------------------------------------------------------- constants
\* The fixed enumeration of event types (LoggingAdmin.event_types).  The
\* order is the model's: the first NumEvents of them are the ones commands
\* and platform events are drawn from.
event_type_order ==
    << "message_delete", "image_send", "member_join", "message_edit",
       "image_delete", "member_leave", "member_ban", "member_unban",
       "voice_join", "voice_leave", "voice_move", "voice_mute",
       "voice_deafen", "voice_stream", "voice_video" >>

event_types == {event_type_order[i] : i \in 1..Len(event_type_order)}

Events == {event_type_order[i] : i \in 1..NumEvents}

\* A token of a /log_group list that names no event type.
InvalidEvent == "bogus"

Guilds == {"g1"}

\* discord.Guild.name
GuildName(g) == g

\* Channel ids; a NULL channel id / a None channel is NoChannel.  The code
\* stores str(channel.id) and reads int(channel_id) back: on the ids of the
\* platform the two undo each other, and the model keeps the number.
Channels == 1..NumChannels
NoChannel == 0

\* discord.TextChannel.name of the channel with id c
ChannelName(c) == c

\* What guild.get_channel(id) returns, as far as the resolver looks at it:
\* nothing, a channel that is no TextChannel, or a TextChannel with the
\* bot's two permissions in it.
ChannelStates ==
    { [kind |-> "missing", send_messages |-> FALSE, embed_links |-> FALSE],
      [kind |-> "voice",   send_messages |-> FALSE, embed_links |-> FALSE] }
    \cup { [kind |-> "text", send_messages |-> s, embed_links |-> l] :
             s \in BOOLEAN, l \in BOOLEAN }

\* Storage calls of the dispatch path that can raise.
StorageSites ==
    { "is_logging_enabled", "is_event_enabled", "get_event_channel",
      "remove_event_channel", "get_guild_config", "style_config" }
NoFault == {}
\* One failing call, or the store failing for the whole handler run.
Faults == {NoFault} \cup {{s} : s \in StorageSites \cup {"send"}}
              \cup {StorageSites}

\* ------------------------------------------------------------------ state
VARIABLES
    guild_configs,       \* table guild_configs
    log_events,          \* table log_events
    log_event_channels,  \* table log_event_channels
    modules_enabled,     \* bot.config.MODULES_ENABLED['logging']
    text_channels,       \* guild.text_channels, by name
    active_sessions,     \* VoiceLogs.active_sessions
    is_running,          \* VoiceLogs.cleanup_stale_sessions.is_running()
    voice_channel,       \* member.voice.channel of each member, on the platform
    utcnow,              \* datetime.utcnow(), in hours
    stay,                \* each member's present stay in voice, as it went
    schema_files,        \* data/schemas/*.sql, the statements of each file
    migrations_file,     \* data/migrations/applied_migrations.txt, its lines
    applied_statements,  \* the schema statements in effect in the database file
    interaction,         \* the interaction of a command with its caller
    processed_messages,  \* ConfigurableLogging._processed_messages
    last_cleanup,        \* ConfigurableLogging._last_cleanup
    time,                \* time.time(), in seconds since the cog was made
    forwarding,          \* on_message_delete tasks waiting in their module's call
    forwards,            \* per message, the calls of a module since the last clear
    executions,          \* calls of cleanup_stale_sessions that have not returned
    pending,             \* voice handlers waiting in their check_logging_enabled
    last                 \* what the last handler did and answered

\* The state of VoiceLogs and of the voice channels.
voice_vars == <<active_sessions, is_running, voice_channel, utcnow, stay>>

\* The schema files, the ledger of the applied ones and the schema in effect.
startup_vars == <<schema_files, migrations_file, applied_statements>>

\* The state of the cog that forwards the platform's events.
cog_vars == <<processed_messages, last_cleanup, time, forwarding, forwards>>

\* The tasks of VoiceLogs that are under way.
task_vars == <<executions, pending>>

vars == <<guild_configs, log_events, log_event_channels, modules_enabled,
          text_channels, voice_vars, startup_vars, interaction, cog_vars,
          task_vars, last>>

\* ------------------------------------------------------- python helpers
\* dict.get(k, default)
DictGet(d, k, default) == IF k \in DOMAIN d THEN d[k] ELSE default

\* d[k] = v
DictSet(d, k, v) == [x \in (DOMAIN d) \cup {k} |-> IF x = k THEN v ELSE d[x]]

EmptyDict == [x \in {} |-> 0]

\* cursor.fetchone(): one of the selected rows, or None
fetchone(rows) == IF rows = {} THEN {} ELSE {CHOOSE r \in rows : TRUE}

\* ------------------------------------------------------------ the schema
\* Uniqueness constraints of the tables: the columns on which
\* INSERT OR REPLACE finds the row to replace.
guild_configs_key == {"guild_id"}
log_events_key == {"guild_id", "event_type"}
log_event_channels_key == {"guild_id", "event_type"}

\* Rows of a table
Rows(table) == DOMAIN table

\* DELETE FROM table WHERE row \in gone
DeleteRows(table, gone) == [r \in (DOMAIN table) \ gone |-> table[r]]

\* Plain INSERT on a table without a constraint on the row: one more copy.
InsertAppend(table, key, row) == table (+) SetToBag({row})

\* INSERT OR REPLACE INTO table VALUES row: rows that conflict with the new
\* row on the table's key are deleted, then the row is inserted.
InsertOrReplace(table, key, row) ==
    DeleteRows(table, {r \in DOMAIN table : \A k \in key : r[k] = row[k]})
        (+) SetToBag({row})

\* ------------------------------------------------- DatabaseManager (store)
\* The database as the handlers see it.
DB == [guild_configs |-> guild_configs,
       log_events |-> log_events,
       log_event_channels |-> log_event_channels]

get_guild_config_none(db, guild_id) == {}

\* SELECT * FROM guild_configs WHERE guild_id = ?  (fetchone)
get_guild_config(db, guild_id) ==
    fetchone({r \in Rows(db.guild_configs) : r.guild_id = guild_id})

\* INSERT OR REPLACE INTO guild_configs: every column is written, a column
\* the dict lacks gets its default.
create_or_update_guild_config(db, guild_id, config) ==
    [db EXCEPT !.guild_configs =
        InsertOrReplace(@, guild_configs_key,
            [guild_id        |-> guild_id,
             guild_name      |-> DictGet(config, "guild_name", ""),
             logging_enabled |-> DictGet(config, "logging_enabled", FALSE),
             log_channel_id  |-> DictGet(config, "log_channel_id", NoChannel),
             log_format      |-> DictGet(config, "log_format", "embed"),
             show_avatars    |-> DictGet(config, "show_avatars", TRUE),
             show_timestamps |-> DictGet(config, "show_timestamps", TRUE),
             embed_color     |-> DictGet(config, "embed_color", "#3498db")])]

\* SELECT * FROM log_events WHERE guild_id = ? AND enabled = 1
get_log_events(db, guild_id) ==
    {r \in Rows(db.log_events) : r.guild_id = guild_id /\ r.enabled}

\* INSERT OR REPLACE INTO log_events
set_log_event(db, guild_id, event_type, enabled) ==
    [db EXCEPT !.log_events =
        InsertOrReplace(@, log_events_key,
            [guild_id |-> guild_id, event_type |-> event_type,
             enabled |-> enabled])]

\* SELECT event_type FROM log_events WHERE guild_id = ? AND enabled = 1
get_all_enabled_events(db, guild_id) ==
    {r.event_type : r \in get_log_events(db, guild_id)}

\* INSERT OR REPLACE INTO log_event_channels
set_event_channel(db, guild_id, event_type, channel_id, channel_name) ==
    [db EXCEPT !.log_event_channels =
        InsertOrReplace(@, log_event_channels_key,
            [guild_id |-> guild_id, event_type |-> event_type,
             channel_id |-> channel_id, channel_name |-> channel_name])]

\* A grouping that first unmaps whatever the channel received before.
set_events_channel_exclusive(db, guild_id, event_list, channel_id, channel_name) ==
    [db EXCEPT !.log_event_channels =
        DeleteRows(@, {r \in DOMAIN @ :
                          r.guild_id = guild_id /\ r.channel_id = channel_id})
        (+) SetToBag({[guild_id |-> guild_id, event_type |-> event_list[i],
                       channel_id |-> channel_id, channel_name |-> channel_name] :
                         i \in 1..Len(event_list)})]

\* One INSERT OR REPLACE per element of the list, in order, then one commit.
RECURSIVE set_events_channel(_, _, _, _, _)
set_events_channel(db, guild_id, event_list, channel_id, channel_name) ==
    IF event_list = << >>
    THEN db
    ELSE set_events_channel(
             set_event_channel(db, guild_id, Head(event_list),
                               channel_id, channel_name),
             guild_id, Tail(event_list), channel_id, channel_name)

\* SELECT channel_id FROM log_event_channels WHERE guild_id = ? AND
\* event_type = ?  (fetchone; row[0] if row else None)
get_event_channel(db, guild_id, event_type) ==
    {r.channel_id :
        r \in fetchone({x \in Rows(db.log_event_channels) :
                          x.guild_id = guild_id /\ x.event_type = event_type})}

\* SELECT event_type FROM log_event_channels WHERE guild_id = ? AND
\* channel_id = ?
get_channel_events(db, guild_id, channel_id) ==
    {r.event_type :
        r \in {x \in Rows(db.log_event_channels) :
                 x.guild_id = guild_id /\ x.channel_id = channel_id}}

\* get_channel_mapping_summary(guild_id)['channels']: one entry per
\* (channel_id, channel_name) group of the guild's rows.
get_channel_mapping_summary(db, guild_id) ==
    {<<r.channel_id, r.channel_name>> :
        r \in {x \in Rows(db.log_event_channels) : x.guild_id = guild_id}}

\* A delete that forgets the guild: WHERE event_type = ?
remove_event_channel_everywhere(db, guild_id, event_type) ==
    [db EXCEPT !.log_event_channels =
        DeleteRows(@, {r \in DOMAIN @ : r.event_type = event_type})]

\* DELETE FROM log_event_channels WHERE guild_id = ? AND event_type = ?
remove_event_channel(db, guild_id, event_type) ==
    [db EXCEPT !.log_event_channels =
        DeleteRows(@, {r \in DOMAIN @ :
                         r.guild_id = guild_id /\ r.event_type = event_type})]

\* A reset that also forgets which events are enabled.
clear_everything(db, guild_id) ==
    [db EXCEPT
        !.log_event_channels = DeleteRows(@, {r \in DOMAIN @ : r.guild_id = guild_id}),
        !.log_events = DeleteRows(@, {r \in DOMAIN @ : r.guild_id = guild_id})]

\* DELETE FROM log_event_channels WHERE guild_id = ?
clear_all_event_channels(db, guild_id) ==
    [db EXCEPT !.log_event_channels =
        DeleteRows(@, {r \in DOMAIN @ : r.guild_id = guild_id})]

\* A guild switch that is on until a config row turns it off.
is_logging_enabled_by_default(db, guild_id) ==
    \A config \in get_guild_config(db, guild_id) :
        DictGet(config, "logging_enabled", TRUE)

\* config and config.get('logging_enabled', False), as a truth value
is_logging_enabled(db, guild_id) ==
    \E config \in get_guild_config(db, guild_id) :
        DictGet(config, "logging_enabled", FALSE)

\* any(event['event_type'] == event_type for event in events)
is_event_enabled(db, guild_id, event_type) ==
    \E event \in get_log_events(db, guild_id) : event.event_type = event_type

\* ------------------------------------------------------ BaseLogger (resolver)
\* guild.get_channel for an id the guild has no channel for
MissingChannel == [kind |-> "missing", send_messages |-> FALSE, embed_links |-> FALSE]

\* The channel ids the tables hold for a guild: the ids a handler can look
\* up on the platform.
StoredChannels(guild_id) ==
    {r.channel_id : r \in {x \in DOMAIN log_event_channels : x.guild_id = guild_id}}
    \cup {r.log_channel_id : r \in {x \in DOMAIN guild_configs :
              x.guild_id = guild_id /\ x.log_channel_id # NoChannel}}

\* A guild as the platform shows it: its id and, for each channel id, what
\* guild.get_channel answers.  The channels no table names are left out of
\* the enumeration (as missing ones): no handler asks for them.
GuildsSeen(CS) ==
    UNION {{[id |-> g,
             channels |-> [c \in Channels |->
                              IF c \in StoredChannels(g) THEN f[c] ELSE MissingChannel]] :
               f \in [StoredChannels(g) -> CS]} : g \in Guilds}

\* guild.get_channel(channel_id)
get_channel(guild, channel_id) ==
    IF channel_id \in DOMAIN guild.channels
    THEN guild.channels[channel_id]
    ELSE MissingChannel

\* channel and isinstance(channel, discord.TextChannel)
IsTextChannel(channel) == channel.kind = "text"

\* A permission test that forgets embed_links.
CanSendOnly(channel) == channel.send_messages

\* bot_perms.send_messages and bot_perms.embed_links
HasLogPermissions(channel) == channel.send_messages /\ channel.embed_links

\* What a call answers: the value it returns or the fact that it raised,
\* and the database it leaves.
Returned(db, channel) == [db |-> db, channel |-> channel, raised |-> FALSE]
Raised(db) == [db |-> db, channel |-> NoChannel, raised |-> TRUE]

\* A level 2 with a self-heal: an invalid default is erased from the config.
DefaultSelfHealing(db, guild, fail) ==
    IF "get_guild_config" \in fail
    THEN Raised(db)
    ELSE LET config == get_guild_config(db, guild.id)
         IN IF \E c \in config : c.log_channel_id # NoChannel
            THEN LET c == CHOOSE x \in config : TRUE
                     default_channel == get_channel(guild, c.log_channel_id)
                 IN IF IsTextChannel(default_channel)
                       /\ HasLogPermissions(default_channel)
                    THEN Returned(db, c.log_channel_id)
                    ELSE Returned(
                             create_or_update_guild_config(db, guild.id,
                                 DictSet(c, "log_channel_id", NoChannel)),
                             NoChannel)
            ELSE Returned(db, NoChannel)

\* Level 2 and 3 of get_log_channel: the default channel of the guild config
\* if it is a text channel the bot may write to, else None.
DefaultLogChannel(db, guild, fail) ==
    IF "get_guild_config" \in fail
    THEN Raised(db)
    ELSE LET config == get_guild_config(db, guild.id)
         IN IF \E c \in config : c.log_channel_id # NoChannel
            THEN LET c == CHOOSE x \in config : TRUE
                     default_channel == get_channel(guild, c.log_channel_id)
                 IN IF IsTextChannel(default_channel)
                    THEN IF HasLogPermissions(default_channel)
                         THEN Returned(db, c.log_channel_id)
                         ELSE Returned(db, NoChannel)
                    ELSE Returned(db, NoChannel)
            ELSE Returned(db, NoChannel)

\* A cleanup that drops every mapping of the guild to the broken channel.
CleanupMapping_by_channel(db, guild_id, event_type, fail) ==
    LET broken == get_event_channel(db, guild_id, event_type)
    IN [db EXCEPT !.log_event_channels =
           DeleteRows(@, {r \in DOMAIN @ :
                            r.guild_id = guild_id /\ r.channel_id \in broken})]

\* The cleanup of an invalid mapping, in its own try/except: a failure of
\* the delete is logged and the mapping stays.
CleanupMapping(db, guild_id, event_type, fail) ==
    IF "remove_event_channel" \in fail
    THEN db
    ELSE remove_event_channel(db, guild_id, event_type)

\* A level 1 that keeps a broken mapping.
EventLogChannelNoHeal(db, guild, event_type, fail) ==
    IF "get_event_channel" \in fail
    THEN Raised(db)
    ELSE LET event_channel_id == get_event_channel(db, guild.id, event_type)
         IN IF \E c \in event_channel_id :
                   /\ IsTextChannel(get_channel(guild, c))
                   /\ HasLogPermissions(get_channel(guild, c))
            THEN Returned(db, CHOOSE c \in event_channel_id : TRUE)
            ELSE DefaultLogChannel(db, guild, fail)

\* A level 1 that prefers the default channel when there is a valid one.
EventLogChannelDefaultFirst(db, guild, event_type, fail) ==
    LET d == DefaultLogChannel(db, guild, fail)
    IN IF ~d.raised /\ d.channel # NoChannel
       THEN d
       ELSE EventLogChannelNoHeal(db, guild, event_type, fail)

\* The body of get_log_channel's try block.
EventLogChannel(db, guild, event_type, fail) ==
    IF "get_event_channel" \in fail
    THEN Raised(db)
    ELSE LET event_channel_id == get_event_channel(db, guild.id, event_type)
         IN IF event_channel_id # {}
            THEN LET event_channel ==
                         get_channel(guild, CHOOSE c \in event_channel_id : TRUE)
                 IN IF IsTextChannel(event_channel)
                    THEN IF HasLogPermissions(event_channel)
                         THEN Returned(db, CHOOSE c \in event_channel_id : TRUE)
                         ELSE DefaultLogChannel(
                                  CleanupMapping(db, guild.id, event_type, fail),
                                  guild, fail)
                    ELSE DefaultLogChannel(
                             CleanupMapping(db, guild.id, event_type, fail),
                             guild, fail)
            ELSE DefaultLogChannel(db, guild, fail)

\* get_log_channel without its except clause.
get_log_channel_unguarded(db, guild, event_type, fail) ==
    EventLogChannel(db, guild, event_type, fail)

\* get_log_channel: the try block, and None for any exception.
get_log_channel(db, guild, event_type, fail) ==
    LET r == EventLogChannel(db, guild, event_type, fail)
    IN IF r.raised THEN Returned(r.db, NoChannel) ELSE r

\* What send_log answers: the database it leaves, the channel resolved,
\* whether the resolver raised, the channel log_channel.send was called on
\* and whether that call succeeded.
SendResult(db, channel, raised, sent, delivered) ==
    [db |-> db, channel |-> channel, raised |-> raised, sent |-> sent,
     delivered |-> delivered]

\* A send_log that sends again when the send failed.
send_log_retrying(db, guild, event_type, fail) ==
    LET r == get_log_channel(db, guild, event_type, fail)
    IN IF r.raised \/ r.channel = NoChannel \/ "style_config" \in fail
       THEN SendResult(r.db, r.channel, r.raised, NoChannel, FALSE)
       ELSE SendResult(r.db, r.channel, r.raised, r.channel, TRUE)

\* send_log: resolve, style from the guild config, send; every exception is
\* logged and swallowed.
send_log(db, guild, event_type, fail) ==
    LET r == get_log_channel(db, guild, event_type, fail)
    IN IF r.raised \/ r.channel = NoChannel
       THEN SendResult(r.db, r.channel, r.raised, NoChannel, FALSE)
       ELSE IF "style_config" \in fail
       THEN SendResult(r.db, r.channel, r.raised, NoChannel, FALSE)
       ELSE IF "send" \in fail
       THEN SendResult(r.db, r.channel, r.raised, r.channel, FALSE)
       ELSE SendResult(r.db, r.channel, r.raised, r.channel, TRUE)

\* A check that looks at the guild switch only.
check_guild_only(db, guild_id, event_type, fail) ==
    IF "is_logging_enabled" \in fail
    THEN FALSE
    ELSE is_logging_enabled(db, guild_id)

\* A check that takes a failing store call for a yes.
check_logging_enabled_trusting(db, guild_id, event_type, fail) ==
    /\ "is_logging_enabled" \in fail \/ is_logging_enabled(db, guild_id)
    /\ "is_event_enabled" \in fail \/ is_event_enabled(db, guild_id, event_type)

\* check_logging_enabled: both switches, False for any exception.
check_logging_enabled(db, guild_id, event_type, fail) ==
    IF "is_logging_enabled" \in fail
    THEN FALSE
    ELSE IF ~is_logging_enabled(db, guild_id)
    THEN FALSE
    ELSE IF "is_event_enabled" \in fail
    THEN FALSE
    ELSE IF ~is_event_enabled(db, guild_id, event_type)
    THEN FALSE
    ELSE TRUE

\* ---------------------------------------------------- the handlers' answers
\* Images the main embed of an upload stands for; more of them get embeds
\* of their own (AttachmentLogs.on_message).
MainEmbedImages == 3

\* Messages as far as the handlers look at them.
Messages ==
    { [author_bot |-> b, in_guild |-> g, files |-> 0, images |-> 0] :
        b \in BOOLEAN, g \in BOOLEAN }
    \cup { [author_bot |-> FALSE, in_guild |-> TRUE, files |-> f, images |-> i] :
             f \in {0, 1}, i \in {0, 1, MainEmbedImages + 1} }

len_attachments(message) == message.files + message.images

\* What a handler did: the handler, its arguments, what it answered or
\* sent, the channels of the guild as the platform showed them, the store
\* calls that failed, and what the mapping table held when it started: the
\* channels mapped to the event, the events mapped to the channel argument
\* and the number of the guild's rows.
Done(op, guild_id, outcome, event, events, arg, res, extra, seen, fail) ==
    [op |-> op, guild |-> guild_id, outcome |-> outcome, event |-> event,
     events |-> events, arg |-> arg,
     channel |-> res.channel, sent |-> res.sent, delivered |-> res.delivered,
     raised |-> res.raised, extra |-> extra, seen |-> seen, fail |-> fail,
     mapped |-> {r.channel_id : r \in {x \in DOMAIN log_event_channels :
                     x.guild_id = guild_id /\ x.event_type = event}},
     grouped |-> {r.event_type : r \in {x \in DOMAIN log_event_channels :
                     x.guild_id = guild_id /\ x.channel_id = arg}},
     rows |-> BagCardinality(
                  [r \in {x \in DOMAIN log_event_channels : x.guild_id = guild_id}
                      |-> log_event_channels[r]])]

NotSeen == << >>

NothingSent == [channel |-> NoChannel, sent |-> NoChannel,
                delivered |-> FALSE, raised |-> FALSE]

\* An administrative command's answer.
Answered(op, guild_id, outcome, event, events, arg) ==
    Done(op, guild_id, outcome, event, events, arg, NothingSent, NoChannel,
         NotSeen, NoFault)

\* A platform event a handler let pass or dropped before any send.
Skipped(op, guild_id, outcome, event, seen, fail) ==
    Done(op, guild_id, outcome, event, << >>, NoChannel, NothingSent, NoChannel,
         seen, fail)

\* The tables take the value of db.
Commit(db) ==
    /\ guild_configs' = db.guild_configs
    /\ log_events' = db.log_events
    /\ log_event_channels' = db.log_event_channels

\* ------------------------------------------------------------ LoggingAdmin
\* A command that takes an event type takes it from EV, the event types a
\* specification follows.
\* for event in L: await set_event_enabled(guild_id, event, True)
RECURSIVE enable_events(_, _, _)
enable_events(db, guild_id, event_list) ==
    IF event_list = << >>
    THEN db
    ELSE enable_events(set_log_event(db, guild_id, Head(event_list), TRUE),
                       guild_id, Tail(event_list))

\* [e for e in event_list if e in self.event_types]
RECURSIVE valid_events(_)
valid_events(event_list) ==
    IF event_list = << >>
    THEN << >>
    ELSE IF Head(event_list) \in event_types
         THEN <<Head(event_list)>> \o valid_events(Tail(event_list))
         ELSE valid_events(Tail(event_list))

\* The tables stay as they are.
Untouched == UNCHANGED <<guild_configs, log_events, log_event_channels>>

\* /log_config [channel] [enabled].  The record of a run that saved keeps
\* the channel argument and, as its list, the enabled argument if given.
log_config ==
    /\ UNCHANGED <<task_vars, interaction, cog_vars, startup_vars, modules_enabled, text_channels, voice_vars>>
    /\ \E guild_id \in Guilds, admin \in BOOLEAN :
        IF ~admin
        THEN /\ last' = Answered("log_config", guild_id, "refused_admin", "", << >>, NoChannel)
             /\ Untouched
        ELSE IF ~modules_enabled
        THEN /\ last' = Answered("log_config", guild_id, "refused_module", "", << >>, NoChannel)
             /\ Untouched
        ELSE \E channel \in {{}} \cup {{c} : c \in Channels},
                enabled \in {{}, {TRUE}, {FALSE}} :
             LET arg == IF channel = {} THEN NoChannel ELSE CHOOSE c \in channel : TRUE
                 stored == get_guild_config(DB, guild_id)
                 config0 == IF stored = {} THEN EmptyDict ELSE CHOOSE c \in stored : TRUE
                 config1 == IF channel # {}
                            THEN DictSet(config0, "log_channel_id", arg)
                            ELSE config0
                 config2 == IF enabled # {}
                            THEN DictSet(config1, "logging_enabled", CHOOSE b \in enabled : TRUE)
                            ELSE config1
                 config3 == DictSet(config2, "guild_name", GuildName(guild_id))
             IN /\ Commit(create_or_update_guild_config(DB, guild_id, config3))
                /\ last' = Answered("log_config", guild_id, "ok", "",
                                    IF enabled = {} THEN << >>
                                    ELSE <<CHOOSE b \in enabled : TRUE>>, arg)

\* /log_events event enabled
log_events_command(EV) ==
    /\ UNCHANGED <<task_vars, interaction, cog_vars, startup_vars, modules_enabled, text_channels, voice_vars>>
    /\ \E guild_id \in Guilds, admin \in BOOLEAN :
        IF ~admin
        THEN /\ last' = Answered("log_events", guild_id, "refused_admin", "", << >>, NoChannel)
             /\ Untouched
        ELSE IF ~is_logging_enabled(DB, guild_id)
        THEN /\ last' = Answered("log_events", guild_id, "refused_disabled", "", << >>, NoChannel)
             /\ Untouched
        ELSE \E event \in EV, enabled \in BOOLEAN :
             /\ Commit(set_log_event(DB, guild_id, event, enabled))
             /\ last' = Answered("log_events", guild_id,
                                 IF enabled THEN "enabled" ELSE "disabled",
                                 event, << >>, NoChannel)

\* A /log_channel that looks at the guild's switch after it has written.
log_channel_checking_late(EV) ==
    /\ UNCHANGED <<task_vars, interaction, cog_vars, startup_vars, modules_enabled, text_channels, voice_vars>>
    /\ \E guild_id \in Guilds, admin \in BOOLEAN :
        IF ~admin
        THEN /\ last' = Answered("log_channel", guild_id, "refused_admin", "", << >>, NoChannel)
             /\ Untouched
        ELSE \E event \in EV, channel \in Channels :
             /\ Commit(set_log_event(
                           set_event_channel(DB, guild_id, event, channel,
                                             ChannelName(channel)),
                           guild_id, event, TRUE))
             /\ last' = IF ~is_logging_enabled(DB, guild_id)
                        THEN Answered("log_channel", guild_id, "refused_disabled",
                                      "", << >>, NoChannel)
                        ELSE Answered("log_channel", guild_id, "ok", event, << >>,
                                      channel)

\* /log_channel event channel
log_channel(EV) ==
    /\ UNCHANGED <<task_vars, interaction, cog_vars, startup_vars, modules_enabled, text_channels, voice_vars>>
    /\ \E guild_id \in Guilds, admin \in BOOLEAN :
        IF ~admin
        THEN /\ last' = Answered("log_channel", guild_id, "refused_admin", "", << >>, NoChannel)
             /\ Untouched
        ELSE IF ~is_logging_enabled(DB, guild_id)
        THEN /\ last' = Answered("log_channel", guild_id, "refused_disabled", "", << >>, NoChannel)
             /\ Untouched
        ELSE \E event \in EV, channel \in Channels :
             /\ Commit(set_log_event(
                           set_event_channel(DB, guild_id, event, channel,
                                             ChannelName(channel)),
                           guild_id, event, TRUE))
             /\ last' = Answered("log_channel", guild_id, "ok", event, << >>, channel)

\* The lists a /log_group events string splits into.
EventLists(EV) ==
    UNION {[1..n -> EV \cup {InvalidEvent}] : n \in 1..MaxEventList}

\* /log_group events channel
log_group(EV) ==
    /\ UNCHANGED <<task_vars, interaction, cog_vars, startup_vars, modules_enabled, text_channels, voice_vars>>
    /\ \E guild_id \in Guilds, admin \in BOOLEAN :
        IF ~admin
        THEN /\ last' = Answered("log_group", guild_id, "refused_admin", "", << >>, NoChannel)
             /\ Untouched
        ELSE IF ~is_logging_enabled(DB, guild_id)
        THEN /\ last' = Answered("log_group", guild_id, "refused_disabled", "", << >>, NoChannel)
             /\ Untouched
        ELSE \E event_list \in EventLists(EV), channel \in Channels :
             LET valid == valid_events(event_list)
             IN IF valid = << >>
                THEN /\ last' = Answered("log_group", guild_id, "no_valid_events", "", << >>, channel)
                     /\ Untouched
                ELSE /\ Commit(enable_events(
                                   set_events_channel(DB, guild_id, valid, channel,
                                                      ChannelName(channel)),
                                   guild_id, valid))
                     /\ last' = Answered("log_group", guild_id, "ok", "", valid, channel)

\* /log_channels_reset
log_channels_reset ==
    /\ UNCHANGED <<task_vars, interaction, cog_vars, startup_vars, modules_enabled, text_channels, voice_vars>>
    /\ \E guild_id \in Guilds, admin \in BOOLEAN :
        IF ~admin
        THEN /\ last' = Answered("log_channels_reset", guild_id, "refused_admin", "", << >>, NoChannel)
             /\ Untouched
        ELSE IF get_channel_mapping_summary(DB, guild_id) = {}
        THEN /\ last' = Answered("log_channels_reset", guild_id, "nothing_to_reset", "", << >>, NoChannel)
             /\ Untouched
        ELSE /\ Commit(clear_all_event_channels(DB, guild_id))
             /\ last' = Answered("log_channels_reset", guild_id, "ok", "", << >>, NoChannel)

\* ---------------------------------------------------------- ChannelManager
\* What create_log_channel answers for each event type: the channel found
\* or created under the event's own name, or None.
Provisionings(EV) ==
    {f \in [EV -> Channels \cup {NoChannel}] :
        \A a, b \in EV : a # b /\ f[a] # NoChannel => f[a] # f[b]}

\* The loop of setup_granular_channels: an event whose channel exists is
\* mapped to it at once.
RECURSIVE setup_granular_channels(_, _, _, _)
setup_granular_channels(db, guild_id, event_list, created) ==
    IF event_list = << >>
    THEN db
    ELSE LET event_type == Head(event_list)
             channel == created[event_type]
         IN setup_granular_channels(
                IF channel # NoChannel
                THEN set_event_channel(db, guild_id, event_type, channel,
                                       ChannelName(channel))
                ELSE db,
                guild_id, Tail(event_list), created)

\* The event types of EV in the order of the enumeration.
InOrder(EV) == SelectSeq(event_type_order, LAMBDA e : e \in EV)

\* /log_setup_granular
log_setup_granular(EV) ==
    /\ UNCHANGED <<task_vars, interaction, cog_vars, startup_vars, modules_enabled, text_channels, voice_vars>>
    /\ \E guild_id \in Guilds, bot_perms_valid \in BOOLEAN, admin \in BOOLEAN,
          category \in BOOLEAN :
        IF ~bot_perms_valid
        THEN /\ last' = Answered("log_setup_granular", guild_id, "refused_bot_permissions", "", << >>, NoChannel)
             /\ Untouched
        ELSE IF ~admin
        THEN /\ last' = Answered("log_setup_granular", guild_id, "refused_admin", "", << >>, NoChannel)
             /\ Untouched
        ELSE IF ~modules_enabled
        THEN /\ last' = Answered("log_setup_granular", guild_id, "refused_module", "", << >>, NoChannel)
             /\ Untouched
        ELSE IF ~category
        THEN /\ last' = Answered("log_setup_granular", guild_id, "failed", "", << >>, NoChannel)
             /\ Untouched
        ELSE \E created \in Provisionings(EV) :
             LET mapped == setup_granular_channels(DB, guild_id, InOrder(EV), created)
                 success == \A e \in EV : created[e] # NoChannel
                 stored == get_guild_config(mapped, guild_id)
                 config0 == IF stored = {} THEN EmptyDict ELSE CHOOSE c \in stored : TRUE
                 config == DictSet(DictSet(config0, "logging_enabled", TRUE),
                                   "guild_name", GuildName(guild_id))
             IN IF ~success
                THEN /\ Commit(mapped)
                     /\ last' = Answered("log_setup_granular", guild_id, "failed", "",
                                         InOrder({e \in EV : created[e] # NoChannel}),
                                         NoChannel)
                ELSE /\ Commit(enable_events(
                                   create_or_update_guild_config(mapped, guild_id, config),
                                   guild_id, InOrder(EV)))
                     /\ last' = Answered("log_setup_granular", guild_id, "ok", "",
                                         InOrder(EV), NoChannel)

\* ------------------------------------- ChannelManager on a guild's channels
\* self.event_definitions, in the order of the dict; an emoji is written by
\* its name.
EventInfo(event_type, name, emoji, group) ==
    [event_type |-> event_type, name |-> name, emoji |-> emoji, group |-> group]

event_definitions ==
    << EventInfo("message_delete", "message-deletions", "wastebasket", "message"),
       EventInfo("message_edit", "message-edits", "pencil", "message"),
       EventInfo("member_join", "member-joins", "wave", "member"),
       EventInfo("member_leave", "member-leaves", "wave", "member"),
       EventInfo("member_ban", "member-bans", "hammer", "member"),
       EventInfo("member_unban", "member-unbans", "unlock", "member"),
       EventInfo("image_send", "file-uploads", "outbox", "file"),
       EventInfo("image_delete", "file-deletions", "wastebasket", "file"),
       EventInfo("voice_join", "voice-joins", "notes", "voice"),
       EventInfo("voice_leave", "voice-leaves", "notes", "voice"),
       EventInfo("voice_move", "voice-moves", "arrows", "voice"),
       EventInfo("voice_mute", "voice-mutes", "muted", "voice"),
       EventInfo("voice_deafen", "voice-deafens", "muted", "voice"),
       EventInfo("voice_stream", "voice-streaming", "camcorder", "voice"),
       EventInfo("voice_video", "voice-video", "camera", "voice") >>

\* self.grouped_channels, in the order of the dict.
GroupInfo(channel_name, emoji, events) ==
    [channel_name |-> channel_name, emoji |-> emoji, events |-> events]

grouped_channels ==
    << GroupInfo("message-logs", "speech", <<"message_delete", "message_edit">>),
       GroupInfo("member-logs", "busts",
                 <<"member_join", "member_leave", "member_ban", "member_unban">>),
       GroupInfo("file-logs", "paperclip", <<"image_send", "image_delete">>),
       GroupInfo("voice-logs", "notes",
                 <<"voice_join", "voice_leave", "voice_move", "voice_mute",
                   "voice_deafen", "voice_stream", "voice_video">>) >>

\* f"{event_info['emoji']}-{event_info['name']}"
granular_channel_name(event_info) == event_info.emoji \o "-" \o event_info.name

\* f"{group_info['emoji']}-{channel_name}"
full_channel_name(group_info) == group_info.emoji \o "-" \o group_info.channel_name

\* The names the two setups give their channels.
GranularNames ==
    {granular_channel_name(event_definitions[i]) : i \in 1..Len(event_definitions)}
GroupedNames ==
    {full_channel_name(grouped_channels[i]) : i \in 1..Len(grouped_channels)}

\* channel.id of the text channel of a name: no channel is deleted, so a
\* name stands for one channel and each name has an id of its own.
SetupNames ==
    [i \in 1..(Len(event_definitions) + Len(grouped_channels)) |->
        IF i <= Len(event_definitions)
        THEN granular_channel_name(event_definitions[i])
        ELSE full_channel_name(grouped_channels[i - Len(event_definitions)])]

ChannelId(name) == NumChannels + (CHOOSE i \in DOMAIN SetupNames : SetupNames[i] = name)

\* x in list
InList(x, list) == \E i \in 1..Len(list) : list[i] = x

\* What create_log_channel answers: the channel (none for None), the text
\* channels of the guild afterwards and whether create_text_channel made one.
Created(channel, channels, made) ==
    [channel |-> channel, text_channels |-> channels, made |-> made]

\* create_log_channel that never looks for a channel of the name.
create_log_channel_anew(channels, channel_name, forbidden) ==
    IF channel_name \in forbidden
    THEN Created({}, channels, FALSE)
    ELSE Created({channel_name}, channels \cup {channel_name}, TRUE)

\* create_log_channel: the channel of the name if there is one, else a new
\* one; None when the platform forbids the creation.
create_log_channel(channels, channel_name, forbidden) ==
    IF channel_name \in channels
    THEN Created({channel_name}, channels, FALSE)
    ELSE IF channel_name \in forbidden
    THEN Created({}, channels, FALSE)
    ELSE Created({channel_name}, channels \cup {channel_name}, TRUE)

\* results of a setup, with the database and the text channels it leaves and
\* the channels create_text_channel made for it.
SetupResults(db, channels) ==
    [success |-> TRUE, channels_created |-> << >>, channels_existing |-> << >>,
     events_mapped |-> << >>, errors |-> << >>,
     db |-> db, text_channels |-> channels, made |-> << >>]

\* The bookkeeping of a channel that was found or created.
ChannelKept(results, c, name, events) ==
    [results EXCEPT
        !.text_channels = c.text_channels,
        !.channels_existing =
            IF InList(name, results.channels_existing) THEN Append(@, name) ELSE @,
        !.channels_created =
            IF InList(name, results.channels_existing) THEN @ ELSE Append(@, name),
        !.events_mapped = @ \o events,
        !.made = IF c.made THEN Append(@, name) ELSE @]

\* The bookkeeping of a channel that could not be created.
ChannelFailed(results, error) ==
    [results EXCEPT !.errors = Append(@, error), !.success = FALSE]

\* A loop over the event definitions that ends at the first channel that
\* could not be created.
RECURSIVE granular_loop_stopping(_, _, _, _)
granular_loop_stopping(guild_id, definitions, forbidden, results) ==
    IF definitions = << >>
    THEN results
    ELSE LET event_info == Head(definitions)
             channel_name == granular_channel_name(event_info)
             c == create_log_channel(results.text_channels, channel_name, forbidden)
         IN IF c.channel # {}
            THEN granular_loop_stopping(guild_id, Tail(definitions), forbidden,
                     ChannelKept(
                         [results EXCEPT !.db =
                             set_event_channel(@, guild_id, event_info.event_type,
                                               ChannelId(channel_name), channel_name)],
                         c, channel_name, <<event_info.event_type>>))
            ELSE ChannelFailed(results,
                     "Failed to create channel for " \o event_info.event_type)

\* for event_type, event_info in self.event_definitions.items(): the channel
\* is found or created and the event mapped to it at once; a channel that
\* could not be created is an error and the loop goes on.
RECURSIVE granular_loop(_, _, _, _)
granular_loop(guild_id, definitions, forbidden, results) ==
    IF definitions = << >>
    THEN results
    ELSE LET event_info == Head(definitions)
             channel_name == granular_channel_name(event_info)
             c == create_log_channel(results.text_channels, channel_name, forbidden)
         IN granular_loop(guild_id, Tail(definitions), forbidden,
                IF c.channel # {}
                THEN ChannelKept(
                         [results EXCEPT !.db =
                             set_event_channel(@, guild_id, event_info.event_type,
                                               ChannelId(channel_name), channel_name)],
                         c, channel_name, <<event_info.event_type>>)
                ELSE ChannelFailed(results,
                         "Failed to create channel for " \o event_info.event_type))

\* A loop over the groups that maps the first event of each group only.
RECURSIVE grouped_loop_heads(_, _, _, _)
grouped_loop_heads(guild_id, groups, forbidden, results) ==
    IF groups = << >>
    THEN results
    ELSE LET group_info == Head(groups)
             channel_name == full_channel_name(group_info)
             c == create_log_channel(results.text_channels, channel_name, forbidden)
         IN grouped_loop_heads(guild_id, Tail(groups), forbidden,
                IF c.channel # {}
                THEN ChannelKept(
                         [results EXCEPT !.db =
                             set_event_channel(@, guild_id, Head(group_info.events),
                                               ChannelId(channel_name), channel_name)],
                         c, channel_name, <<Head(group_info.events)>>)
                ELSE ChannelFailed(results,
                         "Failed to create channel for group " \o group_info.channel_name))

\* for channel_name, group_info in self.grouped_channels.items(): the
\* channel is found or created and the events of the group mapped to it; a
\* channel that could not be created is an error and the loop goes on.
RECURSIVE grouped_loop(_, _, _, _)
grouped_loop(guild_id, groups, forbidden, results) ==
    IF groups = << >>
    THEN results
    ELSE LET group_info == Head(groups)
             channel_name == full_channel_name(group_info)
             c == create_log_channel(results.text_channels, channel_name, forbidden)
         IN grouped_loop(guild_id, Tail(groups), forbidden,
                IF c.channel # {}
                THEN ChannelKept(
                         [results EXCEPT !.db =
                             set_events_channel(@, guild_id, group_info.events,
                                                ChannelId(channel_name), channel_name)],
                         c, channel_name, group_info.events)
                ELSE ChannelFailed(results,
                         "Failed to create channel for group " \o group_info.channel_name))

\* setup_granular_channels on the guild's channels: category is whether
\* create_logs_category answered a category, forbidden the names
\* create_text_channel refuses.
setup_granular_channels_of(db, guild_id, channels, category, forbidden) ==
    IF ~category
    THEN ChannelFailed(SetupResults(db, channels), "Failed to create logs category")
    ELSE granular_loop(guild_id, event_definitions, forbidden,
                       SetupResults(db, channels))

\* setup_grouped_channels
setup_grouped_channels(db, guild_id, channels, category, forbidden) ==
    IF ~category
    THEN ChannelFailed(SetupResults(db, channels), "Failed to create logs category")
    ELSE grouped_loop(guild_id, grouped_channels, forbidden,
                      SetupResults(db, channels))

\* results['errors'][:5]
MaxErrorsShown == 5
ErrorsShown(errors) ==
    SubSeq(errors, 1, IF Len(errors) < MaxErrorsShown THEN Len(errors) ELSE MaxErrorsShown)

\* What a setup command did: the command, its answer, the events it mapped,
\* the channels it reports as new, the channels create_text_channel made,
\* the errors it shows and the names the platform refused.
SetUp(op, guild_id, outcome, results, forbidden) ==
    [op |-> op, guild |-> guild_id, outcome |-> outcome,
     events |-> results.events_mapped,
     channels_created |-> results.channels_created,
     made |-> results.made,
     errors |-> ErrorsShown(results.errors),
     forbidden |-> forbidden]

\* A setup command refused before the setup.
SetupRefused(op, guild_id, outcome) ==
    SetUp(op, guild_id, outcome, SetupResults(DB, text_channels), {})

\* if results['success']: the guild config gets logging_enabled and the
\* guild's name, and every event type is enabled.
EnableLogging(db, guild_id) ==
    LET stored == get_guild_config(db, guild_id)
        config0 == IF stored = {} THEN EmptyDict ELSE CHOOSE c \in stored : TRUE
        config == DictSet(DictSet(config0, "logging_enabled", TRUE),
                          "guild_name", GuildName(guild_id))
    IN enable_events(create_or_update_guild_config(db, guild_id, config),
                     guild_id, event_type_order)

\* The end of a setup command: the answer and what it leaves.
SetupAnswer(op, guild_id, results, forbidden) ==
    /\ text_channels' = results.text_channels
    /\ IF results.success
       THEN /\ Commit(EnableLogging(results.db, guild_id))
            /\ last' = SetUp(op, guild_id, "ok", results, forbidden)
       ELSE /\ Commit(results.db)
            /\ last' = SetUp(op, guild_id, "failed", results, forbidden)

\* /log_setup_granular on the guild's channels; FB are the sets of names the
\* platform may refuse to create.
log_setup_granular_of(FB) ==
    /\ UNCHANGED <<task_vars, interaction, cog_vars, startup_vars, modules_enabled, voice_vars>>
    /\ \E guild_id \in Guilds, bot_perms_valid \in BOOLEAN, admin \in BOOLEAN :
        LET op == "log_setup_granular"
        IN IF ~bot_perms_valid
           THEN /\ last' = SetupRefused(op, guild_id, "refused_bot_permissions")
                /\ Untouched /\ UNCHANGED text_channels
           ELSE IF ~admin
           THEN /\ last' = SetupRefused(op, guild_id, "refused_admin")
                /\ Untouched /\ UNCHANGED text_channels
           ELSE IF ~modules_enabled
           THEN /\ last' = SetupRefused(op, guild_id, "refused_module")
                /\ Untouched /\ UNCHANGED text_channels
           ELSE \E category \in BOOLEAN, forbidden \in FB :
                SetupAnswer(op, guild_id,
                    setup_granular_channels_of(DB, guild_id, text_channels,
                                               category, forbidden),
                    forbidden)

\* /log_setup_grouped
log_setup_grouped(FB) ==
    /\ UNCHANGED <<task_vars, interaction, cog_vars, startup_vars, modules_enabled, voice_vars>>
    /\ \E guild_id \in Guilds, admin \in BOOLEAN :
        LET op == "log_setup_grouped"
        IN IF ~admin
           THEN /\ last' = SetupRefused(op, guild_id, "refused_admin")
                /\ Untouched /\ UNCHANGED text_channels
           ELSE IF ~modules_enabled
           THEN /\ last' = SetupRefused(op, guild_id, "refused_module")
                /\ Untouched /\ UNCHANGED text_channels
           ELSE \E category \in BOOLEAN, forbidden \in FB :
                SetupAnswer(op, guild_id,
                    setup_grouped_channels(DB, guild_id, text_channels,
                                           category, forbidden),
                    forbidden)

\* ------------------------------------------------------- dispatch modules
\* AttachmentLogs.send_multiple_image_logs: the further embeds of an upload
\* go to the configured default channel if the guild has such a channel.
\* The answer is the channel they are sent to.
send_multiple_image_logs(db, guild) ==
    LET config == get_guild_config(db, guild.id)
    IN IF \E c \in config : c.log_channel_id # NoChannel
       THEN LET c == CHOOSE x \in config : TRUE
            IN IF get_channel(guild, c.log_channel_id).kind # "missing"
               THEN c.log_channel_id
               ELSE NoChannel
       ELSE NoChannel

\* What the record of a run keeps of the platform's answer.
Observed(guild, observe) == IF observe THEN guild.channels ELSE NotSeen

\* MessageLogs.on_message_delete
MessageLogs_on_message_delete(CS, FS, observe) ==
    /\ UNCHANGED <<task_vars, interaction, cog_vars, startup_vars, modules_enabled, text_channels, voice_vars>>
    /\ \E message \in Messages, guild_id \in Guilds :
        LET op == "MessageLogs.on_message_delete"
        IN IF message.author_bot \/ ~message.in_guild
              \/ len_attachments(message) > 0
           THEN /\ last' = Skipped(op, guild_id, "ignored", "message_delete", NotSeen, NoFault)
                /\ UNCHANGED <<guild_configs, log_events, log_event_channels>>
           ELSE \E guild \in {x \in GuildsSeen(CS) : x.id = guild_id}, fail \in FS :
                LET seen == Observed(guild, observe)
                IN IF ~check_logging_enabled(DB, guild_id, "message_delete", fail)
                   THEN /\ last' = Skipped(op, guild_id, "not_enabled", "message_delete", seen, fail)
                        /\ Untouched
                   ELSE LET r == send_log(DB, guild, "message_delete", fail)
                        IN /\ Commit(r.db)
                           /\ last' = Done(op, guild_id, "logged", "message_delete", << >>,
                                           NoChannel, r, NoChannel, seen, fail)

\* AttachmentLogs.on_message
AttachmentLogs_on_message(CS, observe) ==
    /\ UNCHANGED <<task_vars, interaction, cog_vars, startup_vars, modules_enabled, text_channels, voice_vars>>
    /\ \E message \in Messages, guild_id \in Guilds :
        LET op == "AttachmentLogs.on_message"
        IN IF message.author_bot \/ ~message.in_guild
              \/ len_attachments(message) = 0
           THEN /\ last' = Skipped(op, guild_id, "ignored", "image_send", NotSeen, NoFault)
                /\ UNCHANGED <<guild_configs, log_events, log_event_channels>>
           ELSE \E guild \in {x \in GuildsSeen(CS) : x.id = guild_id} :
                LET seen == Observed(guild, observe)
                IN IF ~check_logging_enabled(DB, guild_id, "image_send", NoFault)
                   THEN /\ last' = Skipped(op, guild_id, "not_enabled", "image_send", seen, NoFault)
                        /\ Untouched
                   ELSE LET r == send_log(DB, guild, "image_send", NoFault)
                            extra == IF message.images > MainEmbedImages
                                     THEN send_multiple_image_logs(r.db, guild)
                                     ELSE NoChannel
                        IN /\ Commit(r.db)
                           /\ last' = Done(op, guild_id, "logged", "image_send", << >>,
                                           NoChannel, r, extra, seen, NoFault)

\* ---------------------------------------------------------------- VoiceLogs
\* Members whose voice state is followed (none of them a bot).
NumMembers == 2
Members == 1..NumMembers

\* The guild's voice channels, and member.voice being None.
VoiceChannels == {"vcA", "vcB"}
NoVoice == "none"

\* The clock runs in hours, from 0 to MaxClock in steps of ClockStep.
ClockStep == 4
MaxClock == 8
Clock == {t \in 0..MaxClock : t % ClockStep = 0}

\* Moves of one stay the model follows.
MaxMoves == 1

\* timedelta(hours=6)
StaleHours == 6

\* The event types of the three channel transitions.
VoiceEvents == {"voice_join", "voice_leave", "voice_move"}

\* self.active_sessions = {}
NoSessions == EmptyDict

\* d.pop(k)
DictPop(d, k) == [x \in (DOMAIN d) \ {k} |-> d[x]]

\* The record of log_event("voice_session_ended", ...).
voice_session_ended(user_id, session, duration, reason) ==
    [event |-> "voice_session_ended", user_id |-> user_id,
     guild_id |-> session.guild_id, duration_seconds |-> duration,
     channel_moves |-> DictGet(session, "moves", 0), reason |-> reason]

\* What end_session leaves: the sessions, the session data it returns (none
\* for None), the records it logged and whether it raised.
SessionEnd(sessions, session_data, logged, raised) ==
    [active_sessions |-> sessions, session_data |-> session_data,
     logged |-> logged, raised |-> raised]

\* start_session: self.active_sessions[member.id] = {...}
start_session(sessions, member, channel, guild_id, now) ==
    DictSet(sessions, member,
            [member |-> member, channel |-> channel, start_time |-> now,
             guild_id |-> guild_id, moves |-> 0])

\* end_session that pops the session and logs nothing.
end_session_silent(sessions, user_id, reason, now) ==
    IF user_id \notin DOMAIN sessions
    THEN SessionEnd(sessions, {}, << >>, FALSE)
    ELSE SessionEnd(DictPop(sessions, user_id), {}, << >>, FALSE)

\* end_session: None for a user without a session; else the session is
\* popped, then session['start_time'] is read (KeyError when it is missing),
\* then the record is logged.
end_session(sessions, user_id, reason, now) ==
    IF user_id \notin DOMAIN sessions
    THEN SessionEnd(sessions, {}, << >>, FALSE)
    ELSE LET session == sessions[user_id]
             rest == DictPop(sessions, user_id)
         IN IF "start_time" \notin DOMAIN session
            THEN SessionEnd(rest, {}, << >>, TRUE)
            ELSE SessionEnd(rest,
                     {[duration |-> now - session.start_time,
                       moves |-> DictGet(session, "moves", 0),
                       reason |-> reason]},
                     <<voice_session_ended(user_id, session,
                                           now - session.start_time, reason)>>,
                     FALSE)

\* The smallest member of a set of members: the sessions are taken in the
\* order of the member ids.
First(users) == CHOOSE u \in users : \A v \in users : u <= v

\* A shutdown that ends the first session only.
end_first_session(sessions, reason, now, logged) ==
    IF DOMAIN sessions = {}
    THEN SessionEnd(sessions, {}, logged, FALSE)
    ELSE LET r == end_session(sessions, First(DOMAIN sessions), reason, now)
         IN SessionEnd(r.active_sessions, {}, logged \o r.logged, r.raised)

\* end_all_sessions: each session is ended in turn; an exception of
\* end_session ends the loop.
RECURSIVE end_all_sessions(_, _, _, _)
end_all_sessions(sessions, reason, now, logged) ==
    IF DOMAIN sessions = {}
    THEN SessionEnd(sessions, {}, logged, FALSE)
    ELSE LET r == end_session(sessions, First(DOMAIN sessions), reason, now)
         IN IF r.raised
            THEN SessionEnd(r.active_sessions, {}, logged, TRUE)
            ELSE end_all_sessions(r.active_sessions, reason, now,
                                  logged \o r.logged)

\* A sweep that does not look at the age of a session.
cleanup_reason_ageless(session, voice, now) ==
    IF "start_time" \notin DOMAIN session
    THEN {"Invalid session data"}
    ELSE IF "member" \notin DOMAIN session
    THEN {"Missing member object"}
    ELSE IF voice[session.member] = NoVoice
    THEN {"Member no longer in voice"}
    ELSE {}

\* The reason the sweep finds to end a session, none for a session it keeps:
\* the checks of cleanup_stale_sessions in their order.  voice gives
\* member.voice.channel as the platform has it.
cleanup_reason(session, voice, now) ==
    IF "start_time" \notin DOMAIN session
    THEN {"Invalid session data"}
    ELSE IF now - session.start_time > StaleHours
    THEN {"Session too old"}
    ELSE IF "member" \notin DOMAIN session
    THEN {"Missing member object"}
    ELSE IF voice[session.member] = NoVoice
    THEN {"Member no longer in voice"}
    ELSE {}

\* What the sweep leaves: the sessions, the records logged and
\* cleanup_results.
SweepEnd(sessions, logged, success, errors) ==
    [active_sessions |-> sessions, logged |-> logged,
     success |-> success, errors |-> errors]

\* for user_id, reason in stale_sessions: end_session(user_id,
\* f"Cleanup: {reason}"), an exception counted and passed over.
RECURSIVE cleanup_each(_, _, _, _, _)
cleanup_each(sessions, stale, voice, now, done) ==
    IF stale = {}
    THEN done
    ELSE LET u == First(stale)
             reason == CHOOSE x \in cleanup_reason(sessions[u], voice, now) : TRUE
             r == end_session(done.active_sessions, u, "Cleanup: " \o reason, now)
         IN cleanup_each(sessions, stale \ {u}, voice, now,
                SweepEnd(r.active_sessions, done.logged \o r.logged,
                         done.success + (IF r.raised THEN 0 ELSE 1),
                         done.errors + (IF r.raised THEN 1 ELSE 0)))

\* No member: the sweep, the load and the unload are nobody's event.
NoMember == 0

\* A member's stay in voice as it went: when it began, the moves made, if
\* every event of it passed check_logging_enabled, and the session records
\* logged for the member since it began.
Stay(joined, moves, tracked, ended) ==
    [joined |-> joined, moves |-> moves, tracked |-> tracked, ended |-> ended]

\* What a voice handler did: the handler, the member, whether the event
\* passed check_logging_enabled, the records logged, whether an exception
\* left the handler, and what was sent.
VoiceDone(op, member, enabled, logged, raised, res) ==
    [op |-> op, member |-> member, enabled |-> enabled,
     logged |-> logged, raised |-> raised,
     sent |-> res.sent, delivered |-> res.delivered]

\* The records of a sequence that are about a member.
RecordsOf(logged, member) == SelectSeq(logged, LAMBDA x : x.user_id = member)

\* The stays after a handler logged records: each member's count grows by
\* the records about the member.
StaysAfter(stays, logged) ==
    [m \in Members |->
        {Stay(s.joined, s.moves, s.tracked, s.ended + Len(RecordsOf(logged, m))) :
            s \in stays[m]}]

\* handle_voice_join
handle_voice_join(member, channel, guild) ==
    LET op == "VoiceLogs.handle_voice_join"
    IN IF ~check_logging_enabled(DB, guild.id, "voice_join", NoFault)
       THEN /\ last' = VoiceDone(op, member, FALSE, << >>, FALSE, NothingSent)
            /\ UNCHANGED active_sessions
            /\ Untouched
       ELSE LET r == send_log(DB, guild, "voice_join", NoFault)
            IN /\ active_sessions' =
                      start_session(active_sessions, member, channel, guild.id, utcnow)
               /\ Commit(r.db)
               /\ last' = VoiceDone(op, member, TRUE, << >>, FALSE, r)

\* handle_voice_leave
handle_voice_leave(member, channel, guild) ==
    LET op == "VoiceLogs.handle_voice_leave"
    IN IF ~check_logging_enabled(DB, guild.id, "voice_leave", NoFault)
       THEN /\ last' = VoiceDone(op, member, FALSE, << >>, FALSE, NothingSent)
            /\ UNCHANGED active_sessions
            /\ Untouched
       ELSE LET e == end_session(active_sessions, member, "User left channel", utcnow)
            IN IF e.raised
               THEN /\ active_sessions' = e.active_sessions
                    /\ Untouched
                    /\ last' = VoiceDone(op, member, TRUE, e.logged, TRUE, NothingSent)
               ELSE LET r == send_log(DB, guild, "voice_leave", NoFault)
                    IN /\ active_sessions' = e.active_sessions
                       /\ Commit(r.db)
                       /\ last' = VoiceDone(op, member, TRUE, e.logged, FALSE, r)

\* handle_voice_move that leaves the session as it is.
handle_voice_move_uncounted(member, from_channel, to_channel, guild) ==
    LET op == "VoiceLogs.handle_voice_move"
    IN IF ~check_logging_enabled(DB, guild.id, "voice_move", NoFault)
       THEN /\ last' = VoiceDone(op, member, FALSE, << >>, FALSE, NothingSent)
            /\ UNCHANGED active_sessions
            /\ Untouched
       ELSE LET r == send_log(DB, guild, "voice_move", NoFault)
            IN /\ UNCHANGED active_sessions
               /\ Commit(r.db)
               /\ last' = VoiceDone(op, member, TRUE, << >>, FALSE, r)

\* handle_voice_move
handle_voice_move(member, from_channel, to_channel, guild) ==
    LET op == "VoiceLogs.handle_voice_move"
    IN IF ~check_logging_enabled(DB, guild.id, "voice_move", NoFault)
       THEN /\ last' = VoiceDone(op, member, FALSE, << >>, FALSE, NothingSent)
            /\ UNCHANGED active_sessions
            /\ Untouched
       ELSE LET r == send_log(DB, guild, "voice_move", NoFault)
            IN /\ active_sessions' =
                      IF member \in DOMAIN active_sessions
                      THEN [active_sessions EXCEPT
                               ![member] = [@ EXCEPT !.channel = to_channel,
                                                     !.moves = @ + 1]]
                      ELSE active_sessions
               /\ Commit(r.db)
               /\ last' = VoiceDone(op, member, TRUE, << >>, FALSE, r)

\* on_voice_state_update for a change of channel: member is in the channel
\* `before` and goes to `after`; one of the three handlers takes it.
on_voice_state_update(CS) ==
    /\ is_running
    /\ UNCHANGED <<task_vars, interaction, cog_vars, startup_vars, modules_enabled, text_channels, is_running, utcnow>>
    /\ \E member \in Members, after \in VoiceChannels \cup {NoVoice},
          guild \in GuildsSeen(CS) :
        LET before == voice_channel[member]
        IN /\ after # before
           /\ voice_channel' = [voice_channel EXCEPT ![member] = after]
           /\ IF before = NoVoice
              THEN /\ handle_voice_join(member, after, guild)
                   /\ stay' = [stay EXCEPT ![member] =
                                  {Stay(utcnow, 0, last'.enabled, 0)}]
              ELSE IF after = NoVoice
              THEN /\ handle_voice_leave(member, before, guild)
                   /\ stay' = [stay EXCEPT ![member] = {}]
              ELSE /\ \A s \in stay[member] : s.moves < MaxMoves
                   /\ handle_voice_move(member, before, after, guild)
                   /\ stay' = [stay EXCEPT ![member] =
                                  {Stay(s.joined, s.moves + 1,
                                        s.tracked /\ last'.enabled, s.ended) :
                                      s \in stay[member]}]

\* Handlers that wait at one time.
MaxPending == 2

\* The platform reports a change of channel and the listener's task starts:
\* on_voice_state_update picks the handler, which runs to its first await,
\* the one of check_logging_enabled, and waits there for the store.
on_voice_state_update_begins ==
    /\ is_running
    /\ Cardinality(pending) < MaxPending
    /\ UNCHANGED <<executions, interaction, cog_vars, startup_vars, modules_enabled,
                   text_channels, is_running, utcnow, active_sessions, stay, last>>
    /\ Untouched
    /\ \E member \in Members, after \in VoiceChannels \cup {NoVoice} :
          LET task == [member |-> member, before |-> voice_channel[member],
                       after |-> after]
          IN /\ after # voice_channel[member]
             /\ task \notin pending
             /\ (task.before # NoVoice /\ task.after # NoVoice)
                => \A x \in DOMAIN active_sessions :
                      x = member => active_sessions[x].moves < MaxMoves
             /\ voice_channel' = [voice_channel EXCEPT ![member] = after]
             /\ pending' = pending \cup {task}

\* The store answers one of the waiting handlers, in whatever order the
\* answers come, and the handler runs on to its end.
on_voice_state_update_resumes(CS) ==
    /\ UNCHANGED <<executions, interaction, cog_vars, startup_vars, modules_enabled,
                   text_channels, is_running, utcnow, voice_channel, stay>>
    /\ \E task \in pending, guild \in GuildsSeen(CS) :
          /\ pending' = pending \ {task}
          /\ IF task.before = NoVoice
             THEN handle_voice_join(task.member, task.after, guild)
             ELSE IF task.after = NoVoice
             THEN handle_voice_leave(task.member, task.before, guild)
             ELSE handle_voice_move(task.member, task.before, task.after, guild)

\* The body of cleanup_stale_sessions: the stale sessions are listed, then
\* each is ended.
cleanup_pass ==
    /\ UNCHANGED <<interaction, cog_vars, startup_vars, modules_enabled, text_channels, is_running, utcnow, voice_channel>>
    /\ Untouched
    /\ LET stale == {u \in DOMAIN active_sessions :
                        cleanup_reason(active_sessions[u], voice_channel, utcnow) # {}}
           r == cleanup_each(active_sessions, stale, voice_channel, utcnow,
                             SweepEnd(active_sessions, << >>, 0, 0))
       IN /\ active_sessions' = r.active_sessions
          /\ stay' = StaysAfter(stay, r.logged)
          /\ last' = VoiceDone("VoiceLogs.cleanup_stale_sessions", NoMember, TRUE,
                               r.logged, r.errors > 0, NothingSent)

\* cleanup_stale_sessions: one pass of the loop that runs every 30 minutes,
\* from its call to its return.
cleanup_stale_sessions ==
    /\ is_running
    /\ UNCHANGED task_vars
    /\ cleanup_pass

\* Calls of the body the model follows at one time.
MaxExecutions == 2

\* A timer that calls the body every 30 minutes, returned or not.
Loop_ready_timer(running, inside) == running

\* @tasks.loop: the loop is one task that awaits the body, then sleeps until
\* the next 30 minutes are over; it calls the body again only when the call
\* before has returned.
Loop_ready(running, inside) == running /\ inside = 0

\* The loop's task wakes up and calls cleanup_stale_sessions.
Loop_call ==
    /\ Loop_ready(is_running, executions)
    /\ executions < MaxExecutions
    /\ executions' = executions + 1
    /\ UNCHANGED <<pending, interaction, cog_vars, startup_vars, modules_enabled,
                   text_channels, voice_vars, last>>
    /\ Untouched

\* A call of cleanup_stale_sessions does its pass and returns to the loop.
\* The model keeps the call and the return apart, which lets other tasks
\* run between them as if the body were waiting (end_session itself never
\* waits).
Loop_return ==
    /\ executions > 0
    /\ executions' = executions - 1
    /\ UNCHANGED pending
    /\ cleanup_pass

\* cog_load of a cog just constructed: VoiceLogs.setup starts the loop.
cog_load ==
    /\ ~is_running
    /\ is_running' = TRUE
    /\ active_sessions' = NoSessions
    /\ UNCHANGED <<task_vars, interaction, cog_vars, startup_vars, modules_enabled, text_channels, utcnow, voice_channel, stay>>
    /\ Untouched
    /\ last' = VoiceDone("LoggingCog.cog_load", NoMember, TRUE, << >>, FALSE,
                         NothingSent)

\* VoiceLogs.teardown, called by cog_unload: the loop is cancelled (a call
\* of the body that is under way ends where it waits) and every session is
\* ended.
teardown ==
    /\ is_running
    /\ is_running' = FALSE
    /\ executions' = 0
    /\ UNCHANGED <<pending, interaction, cog_vars, startup_vars, modules_enabled, text_channels, utcnow, voice_channel>>
    /\ Untouched
    /\ LET r == end_all_sessions(active_sessions, "Bot shutdown", utcnow, << >>)
       IN /\ active_sessions' = r.active_sessions
          /\ stay' = StaysAfter(stay, r.logged)
          /\ last' = VoiceDone("VoiceLogs.teardown", NoMember, TRUE, r.logged,
                               r.raised, NothingSent)

\* An hour hand that moves: ClockStep hours pass.
Tick ==
    /\ utcnow + ClockStep <= MaxClock
    /\ utcnow' = utcnow + ClockStep
    /\ UNCHANGED <<task_vars, interaction, cog_vars, startup_vars, modules_enabled, text_channels, is_running, voice_channel, active_sessions,
                   stay, last>>
    /\ Untouched

\* --------------------------------------- BaseLogger.test_channel_routing
test_channel_routing_resetting(db, guild, event_type, fail) ==
    [db |-> clear_all_event_channels(db, guild.id), raised |-> TRUE,
     success |-> FALSE, resolved_channel |-> NoChannel, resolution_path |-> << >>]

\* test_channel_routing: the two enabled flags are read before the try
\* block (a failure there leaves the function), the rest is inside it; a
\* channel counts as found when guild.get_channel answers one.  The answer
\* here also carries the database the call leaves.
test_channel_routing(db, guild, event_type, fail) ==
    LET result(success, channel, path) ==
            [db |-> db, raised |-> FALSE, success |-> success,
             resolved_channel |-> channel, resolution_path |-> path]
        default(path) ==
            IF "get_guild_config" \in fail
            THEN result(FALSE, NoChannel, Append(path, "error"))
            ELSE LET config == get_guild_config(db, guild.id)
                 IN IF \E c \in config : c.log_channel_id # NoChannel
                    THEN LET id == (CHOOSE c \in config : TRUE).log_channel_id
                         IN IF get_channel(guild, id).kind # "missing"
                            THEN result(TRUE, id,
                                        path \o <<"checking_default", "default_found">>)
                            ELSE result(FALSE, NoChannel,
                                        path \o <<"checking_default",
                                                  "default_not_accessible", "no_channel">>)
                    ELSE result(FALSE, NoChannel, Append(path, "no_channel"))
    IN IF fail \cap {"is_logging_enabled", "is_event_enabled"} # {}
       THEN [db |-> db, raised |-> TRUE, success |-> FALSE,
             resolved_channel |-> NoChannel, resolution_path |-> << >>]
       ELSE IF "get_event_channel" \in fail
       THEN result(FALSE, NoChannel, <<"error">>)
       ELSE LET event_channel_id == get_event_channel(db, guild.id, event_type)
            IN IF event_channel_id # {}
               THEN LET id == CHOOSE c \in event_channel_id : TRUE
                    IN IF get_channel(guild, id).kind # "missing"
                       THEN result(TRUE, id, <<"found_event_channel", "event_channel_found">>)
                       ELSE default(<<"found_event_channel",
                                      "event_channel_not_accessible">>)
               ELSE default(<< >>)

\* One call of test_channel_routing, as the debug command makes it for an
\* event type.  The record of the run keeps the resolution path as its
\* list and the resolved channel.
test_channel_routing_call(CS, EV, FS) ==
    /\ UNCHANGED <<task_vars, interaction, cog_vars, startup_vars, modules_enabled, text_channels, voice_vars>>
    /\ \E guild \in GuildsSeen(CS), event_type \in EV, fail \in FS :
          LET r == test_channel_routing(DB, guild, event_type, fail)
          IN /\ Commit(r.db)
             /\ last' = Done("BaseLogger.test_channel_routing", guild.id,
                             IF r.success THEN "success" ELSE "failure",
                             event_type, r.resolution_path, NoChannel,
                             [channel |-> r.resolved_channel, sent |-> NoChannel,
                              delivered |-> FALSE, raised |-> r.raised],
                             NoChannel, guild.channels, fail)

\* ------------------------------------------ a command and its caller
\* What the caller of a command has received: nothing, the message
\* interaction.response.send_message gave, and the contents
\* interaction.edit_original_response put in its place.
\* open: the command's coroutine has not returned yet.
NoInteraction == [command |-> "", responses |-> << >>, open |-> FALSE]

\* The calls of /log_channel and /log_channels_reset that may raise: their
\* store calls and the edit of the answer inside the try block.
CommandFaults ==
    {NoFault} \cup
    { {site} : site \in { "is_logging_enabled", "set_event_channel",
                          "set_event_enabled", "get_channel_events",
                          "get_channel_mapping_summary",
                          "clear_all_event_channels",
                          "edit_original_response" } }

\* await interaction.edit_original_response(...) inside the try block: the
\* answer is put in place, or the call raises.  What a try block did is the
\* database it left, the answers put in place and whether it raised.
Edit(db, content, fail) ==
    IF "edit_original_response" \in fail
    THEN [db |-> db, edits |-> << >>, raised |-> TRUE]
    ELSE [db |-> db, edits |-> <<content>>, raised |-> FALSE]

except_nothing(tried, content) == tried

\* except Exception: the generic answer is put in place instead.
except_Exception(tried, content) ==
    IF tried.raised
    THEN [tried EXCEPT !.edits = Append(@, content), !.raised = FALSE]
    ELSE tried

\* /log_channel, the try block.
log_channel_try(db, guild_id, admin, event, channel, fail) ==
    LET raise(d) == [db |-> d, edits |-> << >>, raised |-> TRUE]
    IN IF ~admin
       THEN Edit(db, "refused_admin", fail)
       ELSE IF "is_logging_enabled" \in fail
       THEN raise(db)
       ELSE IF ~is_logging_enabled(db, guild_id)
       THEN Edit(db, "refused_disabled", fail)
       ELSE IF "set_event_channel" \in fail
       THEN raise(db)
       ELSE LET db1 == set_event_channel(db, guild_id, event, channel,
                                         ChannelName(channel))
            IN IF "set_event_enabled" \in fail
               THEN raise(db1)
               ELSE LET db2 == set_log_event(db1, guild_id, event, TRUE)
                    IN IF "get_channel_events" \in fail
                       THEN raise(db2)
                       ELSE Edit(db2, "ok", fail)

\* /log_channels_reset, the try block.
log_channels_reset_try(db, guild_id, admin, fail) ==
    LET raise(d) == [db |-> d, edits |-> << >>, raised |-> TRUE]
    IN IF ~admin
       THEN Edit(db, "refused_admin", fail)
       ELSE IF "get_channel_mapping_summary" \in fail
       THEN raise(db)
       ELSE IF get_channel_mapping_summary(db, guild_id) = {}
       THEN Edit(db, "nothing_to_reset", fail)
       ELSE IF "clear_all_event_channels" \in fail
       THEN raise(db)
       ELSE Edit(clear_all_event_channels(db, guild_id), "ok", fail)

\* await interaction.response.send_message(...), the first statement of a
\* command: the caller has its acknowledgement and the coroutine waits.
\* One caller is followed at a time.
send_message ==
    /\ ~interaction.open
    /\ \E command \in {"log_channel", "log_channels_reset"} :
          interaction' = [command |-> command, responses |-> <<"send_message">>,
                          open |-> TRUE]
    /\ UNCHANGED <<task_vars, guild_configs, log_events, log_event_channels, modules_enabled,
                   text_channels, voice_vars, startup_vars, cog_vars, last>>

\* The command's coroutine goes on after its acknowledgement and returns.
\* The record of the run keeps the last answer put in place as its outcome
\* and the call that raised.
CommandReturns(tried, op, guild_id, event, channel, fail) ==
    /\ Commit(tried.db)
    /\ interaction' = [interaction EXCEPT !.responses = @ \o tried.edits,
                                          !.open = FALSE]
    /\ last' = Done(op, guild_id,
                    IF tried.edits = << >> THEN "" ELSE tried.edits[Len(tried.edits)],
                    event, << >>, channel, NothingSent, NoChannel, NotSeen, fail)

\* /log_channel event channel, after its acknowledgement
log_channel_answer(EV) ==
    /\ interaction.open /\ interaction.command = "log_channel"
    /\ UNCHANGED <<task_vars, cog_vars, startup_vars, modules_enabled, text_channels, voice_vars>>
    /\ \E guild_id \in Guilds, admin \in BOOLEAN, event \in EV,
          channel \in Channels, fail \in CommandFaults :
          CommandReturns(except_Exception(
                          log_channel_try(DB, guild_id, admin, event, channel, fail),
                          "error"),
                      "LoggingAdmin.log_channel", guild_id, event, channel, fail)

\* /log_channels_reset, after its acknowledgement
log_channels_reset_answer ==
    /\ interaction.open /\ interaction.command = "log_channels_reset"
    /\ UNCHANGED <<task_vars, cog_vars, startup_vars, modules_enabled, text_channels, voice_vars>>
    /\ \E guild_id \in Guilds, admin \in BOOLEAN, fail \in CommandFaults :
          CommandReturns(except_Exception(
                          log_channels_reset_try(DB, guild_id, admin, fail),
                          "error"),
                      "LoggingAdmin.log_channels_reset", guild_id, "", NoChannel, fail)

\* ------------------------------------------- ConfigurableLogging (the cog)
MessageIds == 1..NumMessages

\* if current_time - self._last_cleanup > 300
CleanupSeconds == 300

\* The messages the platform reports as deleted or edited, by id: a
\* member's message with a file, a member's message without attachments, a
\* bot's message, and so on in turn.
MessageOf(id) ==
    [id |-> id, author_bot |-> id % 3 = 0, in_guild |-> TRUE,
     files |-> IF id % 3 = 1 THEN 1 ELSE 0, images |-> 0]

on_message_delete_entry_unmarked(processed, cleanup, now, id) ==
    [processed |-> processed, last_cleanup |-> cleanup, cleared |-> FALSE,
     forward |-> id \notin processed]

\* ConfigurableLogging.on_message_delete up to its first await: the set is
\* cleared if the last clear is more than 5 minutes ago, a message id in
\* the set ends the handler, any other is put in the set and forwarded.
on_message_delete_entry(processed, cleanup, now, id) ==
    LET cleared == now - cleanup > CleanupSeconds
        kept == IF cleared THEN {} ELSE processed
    IN [processed |-> kept \cup {id},
        last_cleanup |-> IF cleared THEN now ELSE cleanup,
        cleared |-> cleared,
        forward |-> id \notin kept]

\* The platform delivers the deletion of a message, again or for the first
\* time; the task runs to the await of its module's handler.
on_message_delete ==
    /\ UNCHANGED <<task_vars, guild_configs, log_events, log_event_channels, interaction,
                   startup_vars, modules_enabled, text_channels, voice_vars, time>>
    /\ \E id \in MessageIds :
          LET r == on_message_delete_entry(processed_messages, last_cleanup, time, id)
              since == IF r.cleared THEN [m \in MessageIds |-> 0] ELSE forwards
          IN /\ processed_messages' = r.processed
             /\ last_cleanup' = r.last_cleanup
             /\ forwarding' = IF r.forward
                              THEN [forwarding EXCEPT ![id] = @ + 1]
                              ELSE forwarding
             /\ forwards' = IF r.forward THEN [since EXCEPT ![id] = @ + 1] ELSE since
             /\ last' = [op |-> "ConfigurableLogging.on_message_delete",
                         message_id |-> id, cleared |-> r.cleared,
                         forwarded |-> r.forward]

\* MessageLogs.on_message_delete (event type message_delete, messages
\* without attachments) and AttachmentLogs.on_message_delete (image_delete,
\* messages with attachments) on a message: mine says whether the
\* message's attachments are as the module wants them.
on_message_delete_in(op, event_type, mine, message, guild, db) ==
    IF message.author_bot \/ ~message.in_guild \/ ~mine
    THEN [db |-> db,
          record |-> Skipped(op, guild.id, "ignored", event_type, NotSeen, NoFault)]
    ELSE IF ~check_logging_enabled(db, guild.id, event_type, NoFault)
    THEN [db |-> db,
          record |-> Skipped(op, guild.id, "not_enabled", event_type, NotSeen, NoFault)]
    ELSE LET r == send_log(db, guild, event_type, NoFault)
         IN [db |-> r.db,
             record |-> Done(op, guild.id, "logged", event_type, << >>, NoChannel,
                             r, NoChannel, NotSeen, NoFault)]

forward_message_delete_swapped(db, message, guild) ==
    IF len_attachments(message) = 0
    THEN on_message_delete_in("AttachmentLogs.on_message_delete", "image_delete",
                              len_attachments(message) > 0, message, guild, db)
    ELSE on_message_delete_in("MessageLogs.on_message_delete", "message_delete",
                              len_attachments(message) = 0, message, guild, db)

\* ConfigurableLogging.on_message_delete, the forwarding:
\* if message.attachments: attachment_logs, else: message_logs.
forward_message_delete(db, message, guild) ==
    IF len_attachments(message) > 0
    THEN on_message_delete_in("AttachmentLogs.on_message_delete", "image_delete",
                              len_attachments(message) > 0, message, guild, db)
    ELSE on_message_delete_in("MessageLogs.on_message_delete", "message_delete",
                              len_attachments(message) = 0, message, guild, db)

\* A task of on_message_delete goes on: the module's handler runs and the
\* task ends.  The record of the run is the module's, with the message.
on_message_delete_forward(CS) ==
    /\ UNCHANGED <<task_vars, interaction, startup_vars, modules_enabled, text_channels, voice_vars,
                   processed_messages, last_cleanup, time, forwards>>
    /\ \E id \in MessageIds, guild \in GuildsSeen(CS) :
          /\ forwarding[id] > 0
          /\ forwarding' = [forwarding EXCEPT ![id] = @ - 1]
          /\ LET r == forward_message_delete(DB, MessageOf(id), guild)
             IN /\ Commit(r.db)
                /\ last' = [message_id |-> id] @@ r.record

\* What can raise in the enhanced capture of AttachmentLogs.on_message_delete:
\* one of the two calls of its try block, or none.
CaptureFaults == {{}, {"debug_attachments"}, {"enhanced_delete_logging"}}

\* An enhanced capture without its except clause.
enhanced_capture_unguarded(fault) == [raised |-> fault # {}, warned |-> FALSE]

\* if self.enhanced_logging: try: debug_attachments, enhanced_delete_logging
\* except Exception: logger.warning.  The answer says if an exception
\* leaves the block and if the warning was logged.
enhanced_capture(fault) == [raised |-> FALSE, warned |-> fault # {}]

\* AttachmentLogs.on_message_delete: the three early returns, the enhanced
\* capture, then check_logging_enabled, the handler's own reading of the
\* attachments (plain attribute reads) and send_log.
AttachmentLogs_on_message_delete(db, message, guild, fault) ==
    LET op == "AttachmentLogs.on_message_delete"
        capture == enhanced_capture(fault)
    IN IF message.author_bot \/ ~message.in_guild \/ len_attachments(message) = 0
       THEN [db |-> db,
             record |-> [warned |-> FALSE]
                        @@ Skipped(op, guild.id, "ignored", "image_delete", NotSeen, NoFault)]
       ELSE IF capture.raised
       THEN [db |-> db,
             record |-> [warned |-> capture.warned]
                        @@ Done(op, guild.id, "raised", "image_delete", << >>,
                                NoChannel, [NothingSent EXCEPT !.raised = TRUE],
                                NoChannel, NotSeen, fault)]
       ELSE LET plain == on_message_delete_in(op, "image_delete", TRUE, message, guild, db)
            IN [db |-> plain.db,
                record |-> [warned |-> capture.warned]
                           @@ [plain.record EXCEPT !.fail = fault]]

\* A task of on_message_delete goes on with a message that has attachments:
\* AttachmentLogs.on_message_delete runs, the cog logs an exception that
\* leaves it, and the task ends.
on_message_delete_attachments(CS) ==
    /\ UNCHANGED <<task_vars, interaction, startup_vars, modules_enabled, text_channels, voice_vars,
                   processed_messages, last_cleanup, time, forwards>>
    /\ \E id \in MessageIds, guild \in GuildsSeen(CS), fault \in CaptureFaults :
          /\ forwarding[id] > 0
          /\ len_attachments(MessageOf(id)) > 0
          /\ forwarding' = [forwarding EXCEPT ![id] = @ - 1]
          /\ LET r == AttachmentLogs_on_message_delete(DB, MessageOf(id), guild, fault)
             IN /\ Commit(r.db)
                /\ last' = [message_id |-> id] @@ r.record

\* MessageLogs.on_message_edit on a message whose content changed or not.
message_logs_on_message_edit(db, message, changed, guild) ==
    LET op == "MessageLogs.on_message_edit"
    IN IF message.author_bot \/ ~message.in_guild \/ ~changed
       THEN [db |-> db,
             record |-> Skipped(op, guild.id, "ignored", "message_edit", NotSeen, NoFault)]
       ELSE IF ~check_logging_enabled(db, guild.id, "message_edit", NoFault)
       THEN [db |-> db,
             record |-> Skipped(op, guild.id, "not_enabled", "message_edit", NotSeen, NoFault)]
       ELSE LET r == send_log(db, guild, "message_edit", NoFault)
            IN [db |-> r.db,
                record |-> Done(op, guild.id, "logged", "message_edit", << >>, NoChannel,
                                r, NoChannel, NotSeen, NoFault)]

\* ConfigurableLogging.on_message_edit: every edit goes to
\* message_logs.on_message_edit; the mark _fenrir_forwarded is put on the
\* two message objects and taken off again before the handler ends.
on_message_edit(CS) ==
    /\ UNCHANGED <<task_vars, interaction, cog_vars, startup_vars, modules_enabled, text_channels, voice_vars>>
    /\ \E id \in MessageIds, changed \in BOOLEAN, guild \in GuildsSeen(CS) :
          LET r == message_logs_on_message_edit(DB, MessageOf(id), changed, guild)
          IN /\ Commit(r.db)
             /\ last' = [message_id |-> id] @@ r.record

\* Seconds pass.
TimePasses ==
    /\ time < MaxTime
    /\ time' = time + TimeStep
    /\ UNCHANGED <<task_vars, guild_configs, log_events, log_event_channels, interaction,
                   startup_vars, modules_enabled, text_channels, voice_vars,
                   processed_messages, last_cleanup, forwarding, forwards, last>>

\* ------------------------------- SchemaManager and DatabaseManager.initialize
\* get_schema_files: the schema files in the order they are applied, the
\* numbered files sorted by name (indexes.sql comes last).  A file is known
\* by its place in that order.
Units == 1..NumUnits

\* A schema file as initialize reads it: its statements in order.  Of a
\* statement the connection only looks at whether it changes the schema
\* (CREATE ..., as every statement of create_sample_schemas) or rows
\* (INSERT, UPDATE, DELETE, REPLACE).
SchemaContents == [Units -> [1..NumStatements -> {"ddl", "dml"}]]
sample_schemas == [u \in Units |-> [i \in 1..NumStatements |-> "ddl"]]

\* What may go wrong in one run of initialize: nothing, the read of
\* applied_migrations.txt, the append to it for one file, or one statement.
MigrationFaults ==
    { [site |-> "none", unit |-> 0, statement |-> 0],
      [site |-> "open_read", unit |-> 0, statement |-> 0] }
    \cup {[site |-> "open_append", unit |-> u, statement |-> 0] : u \in Units}
    \cup {[site |-> "execute", unit |-> u, statement |-> i] :
             u \in Units, i \in 1..NumStatements}

\* SchemaManager.get_applied_migrations: the names on the lines of the
\* file ("name - timestamp"); no file, or a read that fails, gives [].
get_applied_migrations(file, fault) ==
    IF fault.site = "open_read"
    THEN {}
    ELSE {line.schema_name : line \in file}

\* SchemaManager.mark_migration_applied: one more line; a failure of the
\* write is logged and nothing else.
mark_migration_applied(file, schema_name, now, fault) ==
    IF fault.site = "open_append" /\ fault.unit = schema_name
    THEN file
    ELSE file \cup {[schema_name |-> schema_name, timestamp |-> now]}

\* The aiosqlite connection of initialize, opened by aiosqlite.connect with
\* sqlite3's default transaction handling: execute opens a transaction in
\* front of INSERT, UPDATE, DELETE and REPLACE only, so a statement takes
\* effect at once unless a transaction is open; commit keeps and rollback
\* drops what the open transaction did.
Connect(durable) == [durable |-> durable, pending |-> {}, in_transaction |-> FALSE]
db_execute(conn, statement, kind) ==
    IF conn.in_transaction \/ kind = "dml"
    THEN [conn EXCEPT !.in_transaction = TRUE, !.pending = @ \cup {statement}]
    ELSE [conn EXCEPT !.durable = @ \cup {statement}]

\* initialize, the statements of one file from statement i on: each is
\* executed in turn, the first that fails ends the loop.
RECURSIVE execute_statements(_, _, _, _, _)
execute_statements(statements, i, unit, conn, fault) ==
    IF i > Len(statements)
    THEN [conn |-> conn, raised |-> FALSE]
    ELSE IF fault.site = "execute" /\ fault.unit = unit /\ fault.statement = i
         THEN [conn |-> conn, raised |-> TRUE]
         ELSE execute_statements(statements, i + 1, unit,
                                 db_execute(conn, <<unit, i>>, statements[i]), fault)

\* initialize, the loop over the schema files from file u on.  st is the
\* connection, the ledger file, the files whose statements were executed
\* and whether the run raised.  After the statements of a file db.commit()
\* keeps what the open transaction did and the file is marked; after a
\* failure db.rollback() drops it and the exception goes on.
RECURSIVE apply_schema_files(_, _, _, _, _, _)
apply_schema_files(files, u, applied, st, now, fault) ==
    IF u > NumUnits
    THEN st
    ELSE IF u \in applied
         THEN apply_schema_files(files, u + 1, applied, st, now, fault)
         ELSE LET r == execute_statements(files[u], 1, u, st.conn, fault)
                  ran == [st EXCEPT !.executed = Append(@, u)]
              IN IF r.raised
                 THEN [ran EXCEPT !.conn = Connect(r.conn.durable), !.raised = TRUE]
                 ELSE apply_schema_files(
                          files, u + 1, applied,
                          [ran EXCEPT !.conn = Connect(r.conn.durable \cup r.conn.pending),
                                      !.file = mark_migration_applied(st.file, u, now, fault)],
                          now, fault)

\* DatabaseManager.initialize, one startup of the bot.  The record of the
\* run keeps the fault it met, the files whose statements it executed, in
\* order, and whether initialize raised.
initialize ==
    /\ UNCHANGED <<task_vars, interaction, cog_vars, schema_files, modules_enabled, text_channels, voice_vars>>
    /\ UNCHANGED <<guild_configs, log_events, log_event_channels>>
    /\ \E fault \in MigrationFaults :
          LET applied == get_applied_migrations(migrations_file, fault)
              st == apply_schema_files(
                        schema_files, 1, applied,
                        [conn |-> Connect(applied_statements), file |-> migrations_file,
                         executed |-> << >>, raised |-> FALSE],
                        utcnow, fault)
          IN /\ applied_statements' = st.conn.durable
             /\ migrations_file' = st.file
             /\ last' = [op |-> "DatabaseManager.initialize", fault |-> fault,
                         executed |-> st.executed, raised |-> st.raised]

\* ------------------------------------------------------- the specifications
NoHandler == Answered("", "", "", "", << >>, NoChannel)

\* No command under way; the cog as constructed at second 0.
CogIdle ==
    /\ interaction = NoInteraction
    /\ processed_messages = {}
    /\ last_cleanup = 0
    /\ time = 0
    /\ forwarding = [id \in MessageIds |-> 0]
    /\ forwards = [id \in MessageIds |-> 0]
    /\ executions = 0
    /\ pending = {}

\* VoiceLogs as constructed, nobody in voice, hour 0.
VoiceIdle ==
    /\ active_sessions = NoSessions
    /\ is_running = FALSE
    /\ voice_channel = [m \in Members |-> NoVoice]
    /\ utcnow = 0
    /\ stay = [m \in Members |-> {}]


Init ==
    /\ guild_configs = EmptyBag
    /\ log_events = EmptyBag
    /\ log_event_channels = EmptyBag
    /\ modules_enabled \in BOOLEAN
    /\ text_channels = {}
    /\ VoiceIdle
    /\ schema_files = sample_schemas
    /\ migrations_file = {}
    /\ applied_statements = {}
    /\ CogIdle
    /\ last = NoHandler

\* Channel states that take the resolver through each of its branches.
SomeChannelStates ==
    { [kind |-> "missing", send_messages |-> FALSE, embed_links |-> FALSE],
      [kind |-> "text", send_messages |-> TRUE, embed_links |-> FALSE],
      [kind |-> "text", send_messages |-> TRUE, embed_links |-> TRUE] }

\* The administrative commands and the dispatch modules on a store that
\* answers every call.
Next ==
    \/ log_config
    \/ log_events_command(Events)
    \/ log_channel(Events)
    \/ log_group(Events)
    \/ log_channels_reset
    \/ log_setup_granular(Events)
    \/ MessageLogs_on_message_delete(SomeChannelStates, {NoFault}, FALSE)
    \/ AttachmentLogs_on_message(SomeChannelStates, FALSE)

Spec == Init /\ [][Next]_vars

\* The event type whose routing is followed call by call.
ResolverEvents == {event_type_order[1]}

\* The routing of one event type, with every state of its channels and with
\* store calls that fail.
NextFault ==
    \/ log_config
    \/ log_events_command(ResolverEvents)
    \/ log_channel(ResolverEvents)
    \/ log_channels_reset
    \/ MessageLogs_on_message_delete(ChannelStates, Faults, TRUE)

SpecFault == Init /\ [][NextFault]_vars

\* The databases /log_config enabled:True and /log_events leave when they
\* enable a set of the voice event types.
VoiceDBs ==
    { enable_events(
          create_or_update_guild_config(
              [guild_configs |-> EmptyBag, log_events |-> EmptyBag,
               log_event_channels |-> EmptyBag],
              g,
              DictSet(DictSet(EmptyDict, "logging_enabled", TRUE),
                      "guild_name", GuildName(g))),
          g, InOrder(S)) : g \in Guilds, S \in SUBSET VoiceEvents }

InitVoice ==
    /\ \E db \in VoiceDBs :
          /\ guild_configs = db.guild_configs
          /\ log_events = db.log_events
          /\ log_event_channels = db.log_event_channels
    /\ modules_enabled = TRUE
    /\ text_channels = {}
    /\ VoiceIdle
    /\ schema_files = sample_schemas
    /\ migrations_file = {}
    /\ applied_statements = {}
    /\ CogIdle
    /\ last = NoHandler

\* The session tracker under each set of enabled voice event types.
NextVoice ==
    \/ cog_load
    \/ on_voice_state_update(SomeChannelStates)
    \/ cleanup_stale_sessions
    \/ teardown
    \/ Tick

SpecVoice == InitVoice /\ [][NextVoice]_vars

\* The loop of the sweep with all three voice event types enabled.
InitLoop ==
    /\ InitVoice
    /\ \A e \in VoiceEvents : \A g \in Guilds : is_event_enabled(DB, g, e)

NextLoop ==
    \/ cog_load
    \/ on_voice_state_update(SomeChannelStates)
    \/ Loop_call
    \/ Loop_return
    \/ teardown
    \/ Tick

SpecLoop == InitLoop /\ [][NextLoop]_vars

\* The voice handlers as tasks that wait for the store, with all three voice
\* event types enabled.
NextTasks ==
    \/ cog_load
    \/ on_voice_state_update_begins
    \/ on_voice_state_update_resumes(SomeChannelStates)

SpecTasks == InitLoop /\ [][NextTasks]_vars

\* The names create_text_channel may refuse in one run of a setup: none, or
\* one name, taken from the first and the last of each setup.
RefusedNames ==
    { granular_channel_name(event_definitions[1]),
      granular_channel_name(event_definitions[Len(event_definitions)]),
      full_channel_name(grouped_channels[1]),
      full_channel_name(grouped_channels[Len(grouped_channels)]) }

OneRefusal == {{}} \cup {{n} : n \in RefusedNames}

\* The two setup commands on a guild that starts without channels.
NextSetup ==
    \/ log_setup_granular_of(OneRefusal)
    \/ log_setup_grouped(OneRefusal)

SpecSetup == Init /\ [][NextSetup]_vars

\* The routing test of one event type, with every state of its channels
\* and with store calls that fail.
NextTest ==
    \/ log_config
    \/ log_channel(ResolverEvents)
    \/ test_channel_routing_call(ChannelStates, ResolverEvents, Faults)

SpecTest == Init /\ [][NextTest]_vars

\* The databases /log_config with a default channel and /log_events leave
\* when they enable a set of the three message event types.
CogDBs ==
    { enable_events(
          create_or_update_guild_config(
              [guild_configs |-> EmptyBag, log_events |-> EmptyBag,
               log_event_channels |-> EmptyBag],
              g,
              DictSet(DictSet(DictSet(EmptyDict, "logging_enabled", TRUE),
                              "log_channel_id", 1),
                      "guild_name", GuildName(g))),
          g, InOrder(S)) :
        g \in Guilds, S \in SUBSET {"message_delete", "message_edit", "image_delete"} }

InitCog ==
    /\ \E db \in CogDBs :
          /\ guild_configs = db.guild_configs
          /\ log_events = db.log_events
          /\ log_event_channels = db.log_event_channels
    /\ modules_enabled = TRUE
    /\ text_channels = {}
    /\ VoiceIdle
    /\ schema_files = sample_schemas
    /\ migrations_file = {}
    /\ applied_statements = {}
    /\ CogIdle
    /\ last = NoHandler

\* The cog's message listeners, with deliveries repeated and the tasks of
\* on_message_delete interleaved.
NextCog ==
    \/ on_message_delete
    \/ on_message_delete_forward(SomeChannelStates)
    \/ on_message_edit(SomeChannelStates)
    \/ TimePasses

SpecCog == InitCog /\ [][NextCog]_vars

\* Another guild of the same bot and a channel of that guild.
OtherGuild == "g2"
OtherChannel == NumChannels + 1

\* The rows the other guild's administrator left: a config with a default
\* channel, the followed event type enabled and mapped to a channel.
OtherGuildDB ==
    set_event_channel(
        enable_events(
            create_or_update_guild_config(
                [guild_configs |-> EmptyBag, log_events |-> EmptyBag,
                 log_event_channels |-> EmptyBag],
                OtherGuild,
                DictSet(DictSet(DictSet(EmptyDict, "logging_enabled", TRUE),
                                "log_channel_id", OtherChannel),
                        "guild_name", GuildName(OtherGuild))),
            OtherGuild, InOrder(ResolverEvents)),
        OtherGuild, CHOOSE e \in ResolverEvents : TRUE, OtherChannel,
        ChannelName(1))

InitTenants ==
    /\ guild_configs = OtherGuildDB.guild_configs
    /\ log_events = OtherGuildDB.log_events
    /\ log_event_channels = OtherGuildDB.log_event_channels
    /\ modules_enabled = TRUE
    /\ text_channels = {}
    /\ VoiceIdle
    /\ schema_files = sample_schemas
    /\ migrations_file = {}
    /\ applied_statements = {}
    /\ CogIdle
    /\ last = NoHandler

\* The commands and the resolver at work for one guild while the tables hold
\* another guild's rows.
NextTenants ==
    \/ log_config
    \/ log_events_command(ResolverEvents)
    \/ log_channel(ResolverEvents)
    \/ log_group(ResolverEvents)
    \/ log_channels_reset
    \/ MessageLogs_on_message_delete(ChannelStates, {NoFault}, TRUE)

SpecTenants == InitTenants /\ [][NextTenants]_vars

\* Every command that writes to the tables, each with callers of both kinds.
NextCommands ==
    \/ log_config
    \/ log_events_command(ResolverEvents)
    \/ log_channel(ResolverEvents)
    \/ log_group(ResolverEvents)
    \/ log_channels_reset
    \/ log_setup_granular_of({{}})
    \/ log_setup_grouped({{}})

SpecCommands == Init /\ [][NextCommands]_vars

\* Deleted messages with attachments whose capture can fail.
NextCapture ==
    \/ on_message_delete
    \/ on_message_delete_attachments(SomeChannelStates)
    \/ TimePasses

SpecCapture == InitCog /\ [][NextCapture]_vars

\* Two commands followed from their acknowledgement to their return, on
\* the configurations /log_config leaves.
NextAnswer ==
    \/ log_config
    \/ send_message
    \/ log_channel_answer(ResolverEvents)
    \/ log_channels_reset_answer

SpecAnswer == Init /\ [][NextAnswer]_vars

\* The event loop resumes a coroutine whose await has completed: a command
\* that was acknowledged goes on.
SpecAnswerFair ==
    /\ SpecAnswer
    /\ WF_vars(log_channel_answer(ResolverEvents))
    /\ WF_vars(log_channels_reset_answer)

\* Startups of the bot over every make-up of the schema files, from a data
\* directory without a ledger and an empty database.
InitMigrate ==
    /\ guild_configs = EmptyBag
    /\ log_events = EmptyBag
    /\ log_event_channels = EmptyBag
    /\ modules_enabled = TRUE
    /\ text_channels = {}
    /\ VoiceIdle
    /\ schema_files \in SchemaContents
    /\ migrations_file = {}
    /\ applied_statements = {}
    /\ CogIdle
    /\ last = NoHandler

NextMigrate == initialize

SpecMigrate == InitMigrate /\ [][NextMigrate]_vars

\* ------------------------------------------------------------ properties
\* The vocabulary of the properties, read from the tables themselves.
MappingRows(guild_id, event_type) ==
    {r \in DOMAIN log_event_channels :
        r.guild_id = guild_id /\ r.event_type = event_type}

MappedChannels(guild_id, event_type) ==
    {r.channel_id : r \in MappingRows(guild_id, event_type)}

DefaultChannels(guild_id) ==
    {r.log_channel_id : r \in {x \in DOMAIN guild_configs :
        x.guild_id = guild_id /\ x.log_channel_id # NoChannel}}

EnabledEvents(guild_id) ==
    {r.event_type : r \in {x \in DOMAIN log_events :
        x.guild_id = guild_id /\ x.enabled}}

Usable(channel) ==
    channel.kind = "text" /\ channel.send_messages /\ channel.embed_links

\* The handler got as far as send_log, which called get_log_channel.
Resolved(l) == l.outcome = "logged"

\* The store calls of the resolver all answered.
ResolverReads == {"get_event_channel", "remove_event_channel", "get_guild_config"}

\* C1: when the event's mapping points to a text channel in which the bot
\* may send messages and embed links, get_log_channel returns that channel,
\* whatever the default channel is, and leaves the mapping in place.
C1_ValidMappingWins ==
    [][\A g \in Guilds, e \in Events, c \in Channels :
        ( /\ Resolved(last') /\ last'.guild = g /\ last'.event = e
          /\ "get_event_channel" \notin last'.fail
          /\ MappedChannels(g, e) = {c}
          /\ Usable(last'.seen[c]) )
        => /\ last'.channel = c
           /\ ~last'.raised
           /\ (last'.fail = NoFault => last'.sent = c /\ last'.delivered)
           /\ log_event_channels' = log_event_channels]_vars

\* A routed event whose valid mapping competed with a valid default channel.
C1_Witness ==
    \E c, d \in Channels :
        /\ c # d
        /\ Resolved(last) /\ last.fail = NoFault
        /\ last.mapped = {c} /\ Usable(last.seen[c])
        /\ DefaultChannels(last.guild) = {d} /\ Usable(last.seen[d])
        /\ last.channel = c /\ last.sent = c

\* C2: when the event's mapping points to a channel that no longer exists
\* and the default channel is valid, get_log_channel returns the default
\* channel and the mapping is gone from the table, so that get_event_channel
\* answers None afterwards.
C2_DeletedChannelHeals ==
    [][\A g \in Guilds, e \in Events, c, d \in Channels :
        ( /\ Resolved(last') /\ last'.guild = g /\ last'.event = e
          /\ last'.fail \cap ResolverReads = {}
          /\ MappedChannels(g, e) = {c}
          /\ last'.seen[c].kind = "missing"
          /\ DefaultChannels(g) = {d}
          /\ Usable(last'.seen[d]) )
        => /\ last'.channel = d
           /\ MappingRows(g, e)' = {}
           /\ get_event_channel(DB, g, e)' = {}]_vars

C2_Witness ==
    \E c, d \in Channels :
        /\ Resolved(last) /\ last.fail = NoFault
        /\ last.mapped = {c} /\ last.seen[c].kind = "missing"
        /\ DefaultChannels(last.guild) = {d} /\ Usable(last.seen[d])
        /\ last.channel = d /\ last.sent = d
        /\ MappingRows(last.guild, last.event) = {}

\* C3: with no mapping for the event and no default channel configured,
\* get_log_channel returns None, no exception leaves it whatever the store
\* does, and send_log sends nothing.
C3_NothingConfigured ==
    [][\A g \in Guilds, e \in Events :
       ( /\ Resolved(last') /\ last'.guild = g /\ last'.event = e
         /\ MappedChannels(g, e) = {}
         /\ DefaultChannels(g) = {} )
       => /\ last'.channel = NoChannel
          /\ ~last'.raised
          /\ last'.sent = NoChannel /\ ~last'.delivered]_vars

C3_Witness ==
    /\ Resolved(last)
    /\ last.mapped = {} /\ DefaultChannels(last.guild) = {}
    /\ "get_event_channel" \in last.fail
    /\ last.channel = NoChannel /\ last.sent = NoChannel

\* C4: when the mapped channel exists as a text channel but the bot lacks
\* send_messages or embed_links in it, the mapping is removed, the resolver
\* goes on to the default channel and never returns the mapped channel.
C4_UnpermittedChannelHeals ==
    [][\A g \in Guilds, e \in Events, c \in Channels :
        ( /\ Resolved(last') /\ last'.guild = g /\ last'.event = e
          /\ last'.fail \cap ResolverReads = {}
          /\ MappedChannels(g, e) = {c}
          /\ last'.seen[c].kind = "text"
          /\ ~(last'.seen[c].send_messages /\ last'.seen[c].embed_links) )
        => /\ MappingRows(g, e)' = {}
           /\ last'.channel # c
           /\ last'.channel =
                  IF \E d \in DefaultChannels(g) : Usable(last'.seen[d])
                  THEN CHOOSE d \in DefaultChannels(g) : TRUE
                  ELSE NoChannel]_vars

\* A mapped channel in which the bot may send but not embed, dropped for a
\* valid default channel.
C4_Witness ==
    \E c, d \in Channels :
        /\ Resolved(last) /\ last.fail = NoFault
        /\ last.mapped = {c}
        /\ last.seen[c].kind = "text"
        /\ last.seen[c].send_messages /\ ~last.seen[c].embed_links
        /\ DefaultChannels(last.guild) = {d} /\ Usable(last.seen[d])
        /\ last.channel = d
        /\ MappingRows(last.guild, last.event) = {}

\* C5: get_log_channel leaves the guild config as it is; with no usable
\* mapping and a default channel that is missing or lacks permissions it
\* returns None and log_channel_id keeps its value.
C5_DefaultNeverHealed ==
    [][Resolved(last') =>
        /\ guild_configs' = guild_configs
        /\ \A g \in Guilds, e \in Events, d \in Channels :
            ( /\ last'.guild = g /\ last'.event = e
              /\ DefaultChannels(g) = {d}
              /\ ~Usable(last'.seen[d])
              /\ \A c \in MappedChannels(g, e) :
                     ~Usable(last'.seen[c]) )
            => /\ last'.channel = NoChannel
               /\ DefaultChannels(g)' = {d}]_vars

C5_Witness ==
    \E d \in Channels :
        /\ Resolved(last) /\ last.fail = NoFault
        /\ last.mapped = {}
        /\ DefaultChannels(last.guild) = {d}
        /\ last.seen[d].kind = "text" /\ ~last.seen[d].embed_links
        /\ last.channel = NoChannel /\ last.sent = NoChannel

GuildMappingRows(guild_id) ==
    {r \in DOMAIN log_event_channels : r.guild_id = guild_id}

ChannelEvents(guild_id, channel_id) ==
    {r.event_type : r \in {x \in GuildMappingRows(guild_id) :
        x.channel_id = channel_id}}

ConfigRows(guild_id) == {r \in DOMAIN guild_configs : r.guild_id = guild_id}

Elements(list) == {list[i] : i \in 1..Len(list)}

DispatchOps == {"MessageLogs.on_message_delete", "AttachmentLogs.on_message"}

\* C6: the mapping table holds at most one row per (guild, event type),
\* stored once; after /log_channel the event's row carries the channel of
\* that write, after /log_group every listed event's row does, also when the
\* same write is repeated.
C6_OneRowPerEvent ==
    [][/\ \A r1 \in DOMAIN log_event_channels' :
            /\ log_event_channels'[r1] = 1
            /\ \A r2 \in DOMAIN log_event_channels' :
                   r1.guild_id = r2.guild_id /\ r1.event_type = r2.event_type
                       => r1 = r2
       /\ \A g \in Guilds, e \in Events, c \in Channels :
            /\ ( last'.op = "log_channel" /\ last'.outcome = "ok"
                 /\ last'.guild = g /\ last'.event = e /\ last'.arg = c )
               => MappedChannels(g, e)' = {c}
            /\ ( last'.op = "log_group" /\ last'.outcome = "ok"
                 /\ last'.guild = g /\ e \in Elements(last'.events)
                 /\ last'.arg = c )
               => MappedChannels(g, e)' = {c}]_vars

\* /log_channel written a second time with the arguments of the write that
\* made the row: the row is there once.
C6_Witness ==
    /\ last.op = "log_channel" /\ last.outcome = "ok"
    /\ last.mapped = {last.arg}
    /\ \E r \in DOMAIN log_event_channels :
        /\ MappingRows(last.guild, last.event) = {r}
        /\ r.channel_id = last.arg
        /\ log_event_channels[r] = 1

\* C7 as stated: after set_events_channel(guild, list, channel) the events
\* of the channel are exactly those of the list, whatever was mapped before.
C7_ExactlyTheList ==
    [][\A g \in Guilds, c \in Channels :
        ( last'.op = "log_group" /\ last'.outcome = "ok"
          /\ last'.guild = g /\ last'.arg = c )
        => ChannelEvents(g, c)' = Elements(last'.events)]_vars

\* C7: after set_events_channel(guild, list, channel) the events of the
\* channel are those of the list and those that were mapped to the channel
\* before; they are exactly the list when none but listed ones were.
C7_ListAddedToChannel ==
    [][\A g \in Guilds, c \in Channels :
        ( last'.op = "log_group" /\ last'.outcome = "ok"
          /\ last'.guild = g /\ last'.arg = c )
        => /\ ChannelEvents(g, c)' = Elements(last'.events) \cup ChannelEvents(g, c)
           /\ get_channel_events(DB, g, c)' = ChannelEvents(g, c)'
           /\ (ChannelEvents(g, c) \subseteq Elements(last'.events)
                  => ChannelEvents(g, c)' = Elements(last'.events))]_vars

\* A group written to a channel that already received another event.
C7_Witness ==
    /\ last.op = "log_group" /\ last.outcome = "ok"
    /\ last.grouped \ Elements(last.events) # {}
    /\ ChannelEvents(last.guild, last.arg) = Elements(last.events) \cup last.grouped

\* C8: /log_channels_reset removes every mapping row of the guild and leaves
\* the event rows and the guild config as they are; with no mapping row an
\* event resolves to the default channel or to nothing.
C8_ResetKeepsEnablement ==
    [][\A g \in Guilds :
        /\ ( last'.op = "log_channels_reset" /\ last'.outcome = "ok"
             /\ last'.guild = g )
           => /\ GuildMappingRows(g)' = {}
              /\ log_events' = log_events
              /\ EnabledEvents(g)' = EnabledEvents(g)
              /\ guild_configs' = guild_configs
        /\ ( last'.op \in DispatchOps /\ last'.guild = g
             /\ GuildMappingRows(g) = {} )
           => last'.channel \in DefaultChannels(g) \cup {NoChannel}]_vars

\* A reset that removed rows of a guild with enabled events.
C8_Witness ==
    /\ last.op = "log_channels_reset" /\ last.outcome = "ok"
    /\ last.rows > 0
    /\ GuildMappingRows(last.guild) = {}
    /\ EnabledEvents(last.guild) # {}
    /\ ConfigRows(last.guild) # {}

JoinStep(m) ==
    /\ last'.op = "VoiceLogs.handle_voice_join" /\ last'.member = m
    /\ voice_channel[m] = NoVoice /\ voice_channel'[m] # NoVoice

LeaveStep(m) ==
    /\ last'.op = "VoiceLogs.handle_voice_leave" /\ last'.member = m
    /\ voice_channel[m] # NoVoice /\ voice_channel'[m] = NoVoice

SweepStep ==
    /\ last'.op = "VoiceLogs.cleanup_stale_sessions"
    /\ is_running /\ is_running' /\ utcnow' = utcnow
    /\ voice_channel' = voice_channel

TeardownStep ==
    /\ last'.op = "VoiceLogs.teardown" /\ is_running /\ ~is_running'

\* The members with a session.
Active(sessions) == DOMAIN sessions

\* The records logged that have a reason of the sweep.
IsCleanupReason(reason) ==
    reason \in {"Cleanup: Invalid session data", "Cleanup: Session too old",
                "Cleanup: Missing member object", "Cleanup: Member no longer in voice"}

C12_StaleSessionEndedFirst ==
    [][\A m \in Members :
         ( /\ JoinStep(m) /\ last'.enabled
           /\ m \in Active(active_sessions) )
         => /\ Len(last'.logged) = 1
            /\ last'.logged[1].user_id = m
            /\ last'.logged[1].duration_seconds
                   = utcnow - active_sessions[m].start_time
            /\ m \in Active(active_sessions')
            /\ active_sessions'[m].start_time = utcnow]_vars

\* C13: once a leave of a member who has a session is handled, whichever
\* voice event types are enabled, the member has no session and one session
\* record with the time from the session's start to the leave was logged.
C13_LeaveEndsSession ==
    [][\A m \in Members :
         ( /\ LeaveStep(m)
           /\ m \in Active(active_sessions) )
         => /\ m \notin Active(active_sessions')
            /\ Len(last'.logged) = 1
            /\ last'.logged[1].user_id = m
            /\ last'.logged[1].duration_seconds
                   = utcnow - active_sessions[m].start_time]_vars

\* C14: a sweep ends every session that began more than StaleHours ago, the
\* member still in voice or not: the session is gone afterwards and a
\* session record with a reason of the sweep was logged for it.
C14_SweepEndsOldSessions ==
    [][SweepStep =>
         \A m \in Active(active_sessions) :
            utcnow - active_sessions[m].start_time > StaleHours
            => /\ m \notin Active(active_sessions')
               /\ \E i \in 1..Len(last'.logged) :
                     /\ last'.logged[i].user_id = m
                     /\ IsCleanupReason(last'.logged[i].reason)
                     /\ last'.logged[i].duration_seconds
                            = utcnow - active_sessions[m].start_time]_vars

C14_Witness ==
    /\ last.op = "VoiceLogs.cleanup_stale_sessions"
    /\ \E i \in 1..Len(last.logged) :
          /\ last.logged[i].reason = "Cleanup: Session too old"
          /\ last.logged[i].duration_seconds > StaleHours
          /\ voice_channel[last.logged[i].user_id] # NoVoice
          /\ \A s \in stay[last.logged[i].user_id] : s.ended = 1
          /\ last.logged[i].user_id \notin Active(active_sessions)

C16_TeardownEndsAll ==
    [][TeardownStep =>
         /\ Active(active_sessions') = {}
         /\ ~last'.raised
         /\ Len(last'.logged) = Cardinality(Active(active_sessions))
         /\ \A m \in Active(active_sessions) :
               \E i \in 1..Len(last'.logged) :
                  /\ last'.logged[i].user_id = m
                  /\ last'.logged[i].reason = "Bot shutdown"
                  /\ last'.logged[i].duration_seconds
                         = utcnow - active_sessions[m].start_time]_vars

C16_Witness ==
    /\ last.op = "VoiceLogs.teardown"
    /\ ~is_running
    /\ Len(last.logged) = NumMembers
    /\ \A m \in Members : \E i \in 1..Len(last.logged) :
          last.logged[i].user_id = m /\ last.logged[i].reason = "Bot shutdown"
    /\ Active(active_sessions) = {}

\* ------------------------------------------- properties of the two setups
\* The steps of the setup commands that went past the refusals.
SetupOps == {"log_setup_granular", "log_setup_grouped"}

SetupRan(l) == l.op \in SetupOps /\ l.outcome \in {"ok", "failed"}

\* The channel a group's events are mapped to, and the events of the groups.
GroupChannel(i) == ChannelId(full_channel_name(grouped_channels[i]))

GroupEvents(i) == Elements(grouped_channels[i].events)

\* The channel an event type has in the granular setup.
GranularChannel(i) == ChannelId(granular_channel_name(event_definitions[i]))

\* The event types a run mapped.
MappedBy(l) == Elements(l.events)

\* C17: /log_setup_grouped completing on a guild without text channels makes
\* exactly the four group channels and leaves exactly 15 mapping rows, each
\* event type mapped to the channel of its group: 2 message, 4 member, 2
\* file and 7 voice event types.
C17_GroupedFromNothing ==
    [][\A g \in Guilds :
         ( /\ last'.op = "log_setup_grouped" /\ last'.outcome = "ok"
           /\ last'.guild = g
           /\ text_channels = {} )
         => /\ text_channels' = GroupedNames
            /\ Cardinality(text_channels') = 4
            /\ Len(last'.made) = 4 /\ Elements(last'.made) = GroupedNames
            /\ Cardinality(GuildMappingRows(g)') = 15
            /\ \A r \in GuildMappingRows(g)' : log_event_channels'[r] = 1
            /\ \A i \in 1..Len(grouped_channels) :
                  ChannelEvents(g, GroupChannel(i))' = GroupEvents(i)
            /\ <<Cardinality(GroupEvents(1)), Cardinality(GroupEvents(2)),
                 Cardinality(GroupEvents(3)), Cardinality(GroupEvents(4))>>
                   = <<2, 4, 2, 7>>
            /\ UNION {GroupEvents(i) : i \in 1..Len(grouped_channels)} = event_types]_vars

C17_Witness ==
    /\ last.op = "log_setup_grouped" /\ last.outcome = "ok"
    /\ Len(last.made) = 4
    /\ text_channels = GroupedNames
    /\ \A g \in Guilds : Cardinality(GuildMappingRows(g)) = 15
    /\ \A g \in Guilds : ChannelEvents(g, GroupChannel(4)) = GroupEvents(4)

\* C18: a setup command run again after it completed, the channels of its
\* names being there, makes no channel and leaves the guild's text channels
\* and the mapping table as the first run left them.
C18_SecondRunChangesNothing ==
    [][\A g \in Guilds, op \in SetupOps :
         ( /\ last.op = op /\ last.outcome = "ok" /\ last.guild = g
           /\ last'.op = op /\ last'.guild = g )
         => /\ last'.made = << >>
            /\ text_channels' = text_channels
            /\ log_event_channels' = log_event_channels]_vars

\* A granular setup that completed with every channel found and none made.
C18_Witness ==
    /\ last.op = "log_setup_granular" /\ last.outcome = "ok"
    /\ last.made = << >>
    /\ MappedBy(last) = event_types
    /\ GranularNames \subseteq text_channels
    /\ \A g \in Guilds : \A i \in 1..Len(event_definitions) :
          ChannelEvents(g, GranularChannel(i)) = {event_definitions[i].event_type}

\* C19: when a setup command has run, with every channel made or with some
\* creation refused, each event type it wrote a mapping for is enabled for
\* the guild.
C19_MappedEventsEnabled ==
    [][\A g \in Guilds :
         ( /\ SetupRan(last') /\ last'.guild = g )
         => MappedBy(last') \subseteq EnabledEvents(g)']_vars

\* The error of a setup that got no category.
CategoryFailed(l) == InList("Failed to create logs category", l.errors)

\* C20: when a setup has its category and the platform refuses one channel
\* that is not there yet, the command answers with that failure in its
\* errors, every other channel of the setup is there afterwards with its
\* event types mapped to it, the text channels that were there remain, and
\* the mapping of the refused channel's event types is as it was.
C20_OneRefusalNoRollback ==
    [][\A g \in Guilds :
         /\ \A i \in 1..Len(event_definitions) :
               LET name == granular_channel_name(event_definitions[i])
               IN ( /\ last'.op = "log_setup_granular" /\ SetupRan(last')
                    /\ last'.guild = g /\ ~CategoryFailed(last')
                    /\ last'.forbidden = {name} /\ name \notin text_channels )
                  => /\ last'.outcome = "failed"
                     /\ last'.errors = <<"Failed to create channel for "
                                           \o event_definitions[i].event_type>>
                     /\ text_channels' = text_channels \cup (GranularNames \ {name})
                     /\ Elements(last'.made) = GranularNames \ (text_channels \cup {name})
                     /\ \A j \in 1..Len(event_definitions) :
                           LET e == event_definitions[j].event_type
                           IN IF j = i
                              THEN MappingRows(g, e)' = MappingRows(g, e)
                              ELSE MappedChannels(g, e)' = {GranularChannel(j)}
         /\ \A i \in 1..Len(grouped_channels) :
               LET name == full_channel_name(grouped_channels[i])
               IN ( /\ last'.op = "log_setup_grouped" /\ SetupRan(last')
                    /\ last'.guild = g /\ ~CategoryFailed(last')
                    /\ last'.forbidden = {name} /\ name \notin text_channels )
                  => /\ last'.outcome = "failed"
                     /\ last'.errors = <<"Failed to create channel for group "
                                           \o grouped_channels[i].channel_name>>
                     /\ text_channels' = text_channels \cup (GroupedNames \ {name})
                     /\ Elements(last'.made) = GroupedNames \ (text_channels \cup {name})
                     /\ \A j \in 1..Len(grouped_channels) :
                           \A e \in GroupEvents(j) :
                              IF j = i
                              THEN MappingRows(g, e)' = MappingRows(g, e)
                              ELSE MappedChannels(g, e)' = {GroupChannel(j)}]_vars

\* A granular setup refused its first channel: the fourteen others were made
\* and mapped.
C20_Witness ==
    /\ last.op = "log_setup_granular" /\ last.outcome = "failed"
    /\ last.forbidden = {granular_channel_name(event_definitions[1])}
    /\ last.errors = <<"Failed to create channel for message_delete">>
    /\ Len(last.made) = Len(event_definitions) - 1
    /\ text_channels = GranularNames \ last.forbidden
    /\ \A g \in Guilds :
          /\ MappedChannels(g, "message_delete") = {}
          /\ \A j \in 2..Len(event_definitions) :
                MappedChannels(g, event_definitions[j].event_type) = {GranularChannel(j)}

\* ------------------------------------------------ properties of the startups
InitializeStep == last'.op = "DatabaseManager.initialize"

\* The schema files named on the lines of the ledger.
Recorded(file) == {line.schema_name : line \in file}

\* Every statement of schema file u is in effect.
AppliedWhole(u, statements) ==
    \A i \in 1..NumStatements : <<u, i>> \in statements

\* The statements of schema file u in effect.
StatementsOf(u, statements) == {s \in statements : s[1] = u}

\* C21: across startups each schema file is applied at most once: a file a
\* run of initialize applied is on the ledger after that run, and a file
\* whose statements are all in effect is not executed again by a later
\* run, also when the read of the ledger or the write to it fails.
C21_AppliedAtMostOnce ==
    [][InitializeStep =>
         \A u \in Units :
            /\ (~AppliedWhole(u, applied_statements)
                /\ AppliedWhole(u, applied_statements'))
               => u \in Recorded(migrations_file')
            /\ AppliedWhole(u, applied_statements)
               => \A k \in 1..Len(last'.executed) : last'.executed[k] # u]_vars

\* C22: when a statement of a schema file fails during initialize, nothing
\* the run executed of that file stays in effect, the file is not put on
\* the ledger, no later file is executed and initialize raises.
C22_FailedUnitRolledBack ==
    [][InitializeStep =>
         \A u \in Units :
            (/\ last'.fault.site = "execute"
             /\ last'.fault.unit = u
             /\ \E k \in 1..Len(last'.executed) : last'.executed[k] = u)
            => /\ StatementsOf(u, applied_statements')
                      = StatementsOf(u, applied_statements)
               /\ Recorded(migrations_file') = Recorded(migrations_file)
               /\ last'.executed[Len(last'.executed)] = u
               /\ last'.raised]_vars

TerminalAnswers == {"refused_admin", "refused_disabled", "nothing_to_reset", "ok", "error"}

TestStep == last'.op = "BaseLogger.test_channel_routing"

\* C25: test_channel_routing answers success, the resolved channel and the
\* path of its decisions, and leaves the tables as they were, except that
\* the rows mapping the tested event type of the tested guild may be gone
\* when the mapped channel is not there.
C25_TestChangesNoState ==
    [][\A g \in Guilds, e \in Events :
          (TestStep /\ last'.guild = g /\ last'.event = e)
          => /\ guild_configs' = guild_configs
             /\ log_events' = log_events
             /\ \/ log_event_channels' = log_event_channels
                \/ /\ \A c \in last'.mapped : last'.seen[c].kind = "missing"
                   /\ log_event_channels' =
                          DeleteRows(log_event_channels,
                                     {r \in DOMAIN log_event_channels :
                                          r.guild_id = g /\ r.event_type = e})
             /\ ~last'.raised
                => /\ (last'.outcome = "success") = (last'.channel # NoChannel)
                   /\ last'.events # << >>
                   /\ last'.events[Len(last'.events)]
                          \in (IF last'.outcome = "success"
                               THEN {"event_channel_found", "default_found"}
                               ELSE {"no_channel", "error"})
                   /\ (last'.events[1] = "found_event_channel")
                          = (last'.mapped # {} /\ "get_event_channel" \notin last'.fail)
                   /\ last'.channel # NoChannel
                      => last'.seen[last'.channel].kind # "missing"]_vars

\* The test has just found the event's mapped channel gone and answered
\* with the default channel; the broken mapping is still stored.
C25_Witness ==
    /\ last.op = "BaseLogger.test_channel_routing"
    /\ last.outcome = "success"
    /\ last.events = <<"found_event_channel", "event_channel_not_accessible",
                       "checking_default", "default_found">>
    /\ \E r \in GuildMappingRows(last.guild) :
          r.event_type = last.event /\ last.seen[r.channel_id].kind = "missing"

\* ------------------------------------------------ properties of the cog
DeleteModules == {"MessageLogs.on_message_delete", "AttachmentLogs.on_message_delete"}

\* A listener of the cog ran (no seconds passed).
DeliveryStep == last'.op = "ConfigurableLogging.on_message_delete" /\ time' = time

ForwardStep == last'.op \in DeleteModules /\ time' = time

EditStep == last'.op = "MessageLogs.on_message_edit" /\ time' = time

\* C26: a deletion that is forwarded is handled by one module, chosen by
\* the message's attachments: the attachment module under image_delete for
\* a message with attachments, the message module under message_delete for
\* one without; the module sends one record for a member's message whose
\* event type is enabled and none otherwise, and a delivery that is not
\* forwarded reaches no module.
C26_OneModulePerDelete ==
    [][\A m \in MessageIds, g \in Guilds :
          /\ (ForwardStep /\ last'.message_id = m /\ last'.guild = g)
             => LET message == MessageOf(m)
                    attached == len_attachments(message) > 0
                IN /\ forwarding[m] > 0
                   /\ forwarding' = [forwarding EXCEPT ![m] = @ - 1]
                   /\ last'.op = IF attached
                                 THEN "AttachmentLogs.on_message_delete"
                                 ELSE "MessageLogs.on_message_delete"
                   /\ last'.event = IF attached THEN "image_delete" ELSE "message_delete"
                   /\ last'.extra = NoChannel
                   /\ (last'.outcome = "logged")
                          = (/\ ~message.author_bot
                             /\ is_logging_enabled(DB, g)
                             /\ is_event_enabled(DB, g, last'.event))
                   /\ last'.outcome # "logged" => last'.sent = NoChannel
          /\ (DeliveryStep /\ last'.message_id = m /\ ~last'.forwarded)
             => /\ forwarding' = forwarding
                /\ UNCHANGED <<guild_configs, log_events, log_event_channels>>]_vars

\* The attachment module has just sent the image_delete record of a
\* deleted message with a file.
C26_Witness ==
    /\ last.op = "AttachmentLogs.on_message_delete"
    /\ len_attachments(MessageOf(last.message_id)) > 0
    /\ last.outcome = "logged"
    /\ last.event = "image_delete"
    /\ last.delivered

\* C27: an edit of a message that carries attachments does not go to the
\* message module: no message_edit record is sent for it by
\* MessageLogs.on_message_edit.
C27_AttachmentEditNotInMessageLogs ==
    [][\A m \in MessageIds :
          (EditStep /\ last'.message_id = m /\ len_attachments(MessageOf(m)) > 0)
          => last'.outcome # "logged"]_vars

\* C28: between two clears of the set a message's deletion is forwarded to
\* a module at most once, however often it is delivered and however the
\* tasks interleave, and the set loses members only in a delivery that
\* comes more than 5 minutes after the last clear.
C28_ForwardedOncePerClear ==
    /\ [](\A id \in MessageIds : forwards[id] <= 1)
    /\ [][~(processed_messages \subseteq processed_messages')
          => /\ DeliveryStep
             /\ last'.cleared
             /\ time - last_cleanup > CleanupSeconds
             /\ last_cleanup' = time]_vars
    /\ [][(\E id \in MessageIds : forwards'[id] < forwards[id])
          => (DeliveryStep /\ last'.cleared)]_vars

\* A deletion is delivered again while the task of its first delivery still
\* waits in its module: the second delivery is not forwarded.
C28_Witness ==
    /\ last.op = "ConfigurableLogging.on_message_delete"
    /\ ~last.forwarded
    /\ forwarding[last.message_id] = 1
    /\ forwards[last.message_id] = 1

\* --------------------------------------------------- properties of a move
MoveStep(m) ==
    /\ last'.op = "VoiceLogs.handle_voice_move" /\ last'.member = m
    /\ voice_channel[m] # NoVoice /\ voice_channel'[m] # NoVoice
    /\ voice_channel'[m] # voice_channel[m]

\* C29: a move handled for a member with a session leaves the session in
\* place with the start time it had, its channel the channel moved to and
\* its count of moves one higher; a move handled for a member without a
\* session starts none.
C29_MoveUpdatesSession ==
    [][\A m \in Members :
          MoveStep(m)
          => IF m \in Active(active_sessions)
             THEN /\ m \in Active(active_sessions')
                  /\ active_sessions'[m].start_time = active_sessions[m].start_time
                  /\ active_sessions'[m].channel = voice_channel'[m]
                  /\ active_sessions'[m].moves = active_sessions[m].moves + 1
             ELSE m \notin Active(active_sessions')]_vars

\* ------------------------------------- properties of a failing store call
\* C30: a store call that fails inside the dispatch of a deleted message
\* counts as nothing configured: a failing switch read makes
\* check_logging_enabled answer False (nothing is resolved, sent or
\* written), a failing read of the mapping or of the guild config makes
\* get_log_channel answer None unless a usable mapping was found before it,
\* nothing is sent to a channel that was not resolved, and no exception
\* leaves the handler.
C30_StoreFailureIsNotConfigured ==
    [][\A g \in Guilds, e \in Events :
          (/\ last'.op = "MessageLogs.on_message_delete"
           /\ last'.outcome # "ignored"
           /\ last'.guild = g /\ last'.event = e
           /\ last'.fail \cap StorageSites # {})
          => /\ ~last'.raised
             /\ ("is_logging_enabled" \in last'.fail
                 \/ (is_logging_enabled(DB, g) /\ "is_event_enabled" \in last'.fail))
                => /\ last'.outcome = "not_enabled"
                   /\ last'.channel = NoChannel /\ last'.sent = NoChannel
                   /\ UNCHANGED <<guild_configs, log_events, log_event_channels>>
             /\ (Resolved(last') /\ "get_event_channel" \in last'.fail)
                => /\ last'.channel = NoChannel /\ last'.sent = NoChannel
                   /\ UNCHANGED <<guild_configs, log_events, log_event_channels>>
             /\ (Resolved(last') /\ "get_guild_config" \in last'.fail)
                => \/ last'.channel = NoChannel /\ last'.sent = NoChannel
                   \/ last'.channel \in MappedChannels(g, e)
                      /\ Usable(last'.seen[last'.channel])
             /\ last'.sent # NoChannel => last'.sent = last'.channel]_vars

\* The read of the guild config has just failed in the resolver of a guild
\* whose default channel is usable and whose event has no mapping: nothing
\* was resolved and nothing sent.
C30_Witness ==
    /\ last.op = "MessageLogs.on_message_delete"
    /\ Resolved(last)
    /\ last.fail = {"get_guild_config"}
    /\ last.mapped = {}
    /\ \E c \in DefaultChannels(last.guild) : Usable(last.seen[c])
    /\ last.channel = NoChannel /\ last.sent = NoChannel
    /\ ~last.raised

\* ------------------------------------------------- properties of a send
\* C31: send_log calls log_channel.send at most once for an event and only
\* on the channel the resolver returned; the record counts as delivered
\* only if that one call succeeded, so a send that fails (Forbidden,
\* HTTPException or any other exception) drops the record; a failing read
\* of the style drops it before any send; no exception leaves send_log.
C31_SentAtMostOnce ==
    [][(Resolved(last') /\ last'.op = "MessageLogs.on_message_delete")
       => /\ ~last'.raised
          /\ last'.sent \in {NoChannel, last'.channel}
          /\ last'.delivered
             => last'.sent # NoChannel /\ "send" \notin last'.fail
          /\ ("send" \in last'.fail /\ last'.channel # NoChannel)
             => last'.sent = last'.channel /\ ~last'.delivered
          /\ "style_config" \in last'.fail
             => last'.sent = NoChannel /\ ~last'.delivered]_vars

\* A channel was resolved, the one send to it failed and nothing was
\* delivered.
C31_Witness ==
    /\ Resolved(last) /\ last.op = "MessageLogs.on_message_delete"
    /\ last.fail = {"send"}
    /\ last.channel # NoChannel /\ last.sent = last.channel
    /\ ~last.delivered /\ ~last.raised

\* ------------------------------------------- properties of the sweep's loop
\* C32: at no time are two calls of cleanup_stale_sessions under way: a
\* call begins only while the loop runs and no earlier call is under way,
\* that is after the call before it has returned or was cancelled.
C32_SingleFlight ==
    /\ [](executions <= 1)
    /\ [][executions' > executions => executions = 0 /\ is_running]_vars

\* A sweep has returned and the next call of the body is under way.
C32_Witness ==
    /\ executions = 1 /\ is_running
    /\ last.op = "VoiceLogs.cleanup_stale_sessions"
    /\ Len(last.logged) > 0

RowsOfOthers(table, guild_id) ==
    [r \in {x \in DOMAIN table : x.guild_id # guild_id} |-> table[r]]

\* C35: whatever a command or a handler does for a guild (a mapping set,
\* removed or cleared, an event type enabled, the config written, a broken
\* mapping removed by the resolver), the rows of every other guild stay as
\* they are in all three tables, and the channel resolved for the guild is
\* one the guild's own rows name and the guild itself has.
C35_NoCrossTenantEffect ==
    [][\A g \in Guilds :
          last'.guild = g
          => /\ RowsOfOthers(guild_configs', g) = RowsOfOthers(guild_configs, g)
             /\ RowsOfOthers(log_events', g) = RowsOfOthers(log_events, g)
             /\ RowsOfOthers(log_event_channels', g)
                    = RowsOfOthers(log_event_channels, g)
             /\ Resolved(last')
                => \/ last'.channel = NoChannel
                   \/ /\ last'.channel \in StoredChannels(g)
                      /\ last'.channel \in Channels
                      /\ Usable(last'.seen[last'.channel])]_vars

\* The resolver has just removed a broken mapping of the guild for the
\* event type the other guild has mapped too, and the other guild's rows are
\* all there.
C35_Witness ==
    /\ Resolved(last)
    /\ last.mapped # {}
    /\ MappedChannels(last.guild, last.event) = {}
    /\ \E r \in DOMAIN log_event_channels :
          r.guild_id = OtherGuild /\ r.event_type = last.event
    /\ \E r \in DOMAIN guild_configs : r.guild_id = OtherGuild

\* ------------------------------------------- properties of waiting handlers
\* The handlers of a member's events that have not finished.
PendingOf(m) == {t \in pending : t.member = m}

\* C36: a member who has left voice and whose handlers have all finished
\* has no active session, in whatever order the handlers of the join and
\* of the leave that followed it were resumed.
C36_NoSessionAfterJoinAndLeave ==
    \A m \in Members :
        (voice_channel[m] = NoVoice /\ PendingOf(m) = {})
        => m \notin DOMAIN active_sessions

\* --------------------------------- properties of the test and the resolver
\* C37: with the store answering, test_channel_routing reports success with
\* a channel exactly when get_log_channel returns that channel for the same
\* guild, event type, tables and channels, and reports failure exactly when
\* get_log_channel returns None.
C37_TestAgreesWithResolver ==
    [][\A g \in Guilds, e \in Events :
          (/\ last'.op = "BaseLogger.test_channel_routing"
           /\ last'.guild = g /\ last'.event = e
           /\ last'.fail = NoFault)
          => LET real == get_log_channel(DB, [id |-> g, channels |-> last'.seen],
                                         e, NoFault).channel
             IN /\ (last'.outcome = "success") <=> (real # NoChannel)
                /\ last'.channel = real]_vars

\* --------------------------------------- properties of the image records
\* C38: every record of an upload, the main one and the further ones of a
\* message with more than 3 images, is sent to the channel get_log_channel
\* resolved for image_send, and to no channel when it resolved none.
C38_ImageRecordsFollowResolver ==
    [][(last'.op = "AttachmentLogs.on_message" /\ Resolved(last'))
       => /\ last'.sent \in {NoChannel, last'.channel}
          /\ last'.extra \in {NoChannel, last'.channel}]_vars

\* --------------------------------------- properties of the self-heal's frame
\* The mapping rows of a guild for the event types other than one.
OtherMappingRows(table, guild_id, event_type) ==
    [r \in {x \in DOMAIN table :
               x.guild_id = guild_id /\ x.event_type # event_type} |-> table[r]]

\* C39: get_log_channel, run by a dispatch handler for a guild and an event
\* type, changes at most the mapping rows of that pair: the mappings of the
\* guild's other event types stay, also those that name the same broken
\* channel, and so do the enablement rows and the guild config.
C39_SelfHealRemovesOnlyThePair ==
    [][\A g \in Guilds, e \in Events :
          (Resolved(last') /\ last'.op \in DispatchOps
           /\ last'.guild = g /\ last'.event = e)
          => /\ OtherMappingRows(log_event_channels', g, e)
                 = OtherMappingRows(log_event_channels, g, e)
             /\ UNCHANGED <<guild_configs, log_events>>
             /\ MappedChannels(g, e)' \subseteq last'.mapped]_vars

\* The resolver removed the mapping of the event type; another event type
\* of the guild is still mapped to the channel that was broken.
C39_Witness ==
    /\ Resolved(last) /\ last.op \in DispatchOps
    /\ last.mapped # {}
    /\ MappedChannels(last.guild, last.event) = {}
    /\ \E r \in DOMAIN log_event_channels :
          /\ r.guild_id = last.guild /\ r.event_type # last.event
          /\ r.channel_id \in last.mapped

\* ------------------------------------------ properties of a refused command
\* The administrative commands that write to the tables.
WritingCommands ==
    {"log_config", "log_events", "log_channel", "log_group",
     "log_channels_reset", "log_setup_granular", "log_setup_grouped"}

\* C40: a command refused because its caller is no administrator, or
\* (/log_channel, /log_group, /log_events) because the guild's logging is
\* not enabled, leaves the guild config, the enablement rows and the
\* mappings exactly as they were.
C40_RefusedCommandChangesNothing ==
    [][(/\ last'.op \in WritingCommands
        /\ last'.outcome \in {"refused_admin", "refused_disabled"})
       => UNCHANGED <<guild_configs, log_events, log_event_channels>>]_vars

\* /log_channels_reset was refused to a caller who is no administrator in a
\* guild that has mappings, and /log_channel would have been refused for
\* the guild's switch being off.
C40_Witness ==
    /\ last.op = "log_channels_reset" /\ last.outcome = "refused_admin"
    /\ GuildMappingRows(last.guild) # {}
    /\ ~is_logging_enabled(DB, last.guild)

====
